---- MODULE Spec2Model ----
(***************************************************************************)
(* Model of linear-lite-mcp: the token lifecycle of LinearLiteMCP          *)
(* (src/src/index.ts), the query executor executeQuery and the reference   *)
(* data cache LinearCache (src/src/linear/client.ts), the tool handlers    *)
(* and the switch of identity (src/src/index.ts), the by-name operations   *)
(* and listIssues (src/src/linear/index.ts, documents.ts), and the         *)
(* encrypted credential store (encrypt, decrypt, getLinearTokens), and     *)
(* onConnect with the issue_create handler (src/src/index.ts).             *)
(*                                                                         *)
(* Time is counted in seconds (Date.now() / 1000), so that one year fits   *)
(* the model checker's integers.  A string that JavaScript treats as falsy *)
(* (undefined, null, "") is the number 0; an absent expiresAt is 0 as      *)
(* well, which is exactly the set of values `!tokens.expiresAt` accepts.   *)
(***************************************************************************)
EXTENDS Integers, Sequences, FiniteSets, TLC

\* ------------------------------------------------------------------ bounds
MaxCalls == 2
MaxRefreshes == 2
MaxTicks == 1
T0 == 1000
MaxQueries == 2
MaxGets == 3
MaxCacheTicks == 1
MaxToolCalls == 2
MaxLabelNames == 2

\* ------------------------------------------------------- program constants
fiveMinutes == 5 * 60
defaultTTL == 5 * 60
oneYear == 365 * 24 * 60 * 60
defaultLifetime == 23 * 60 * 60

\* ------------------------------------------------------------ input values
TickSteps == {1}
CacheTickSteps == {1, 300}
InitExpiries == {0, T0 - 100, T0 + 301}
ExpiresIn == {0, 60}
Callers == {1, 2}
QueryCallers == {1, 2}
Getters == {1, 2}
Keys == {"teams", "users"}
NoTtl == 0 - 1
TtlArgs == {NoTtl, 1}
Identities == {1, 2}
Handlers == {1, 2}
Tools == {"issues_list", "documents_list", "issue_get"}
SessionKeys == {"teams", "projects"}
TokenErrors == {"NoAccessToken", "ExpiredNoRefreshToken", "ReauthRequired"}

\* values of COOKIE_ENCRYPTION_KEY, seeds of the random IV, and the
\* credential sets handed to setLinearTokens
EncryptionKeys == {"key-a", "key-b"}
IvSeeds == {1, 2}
StoredSets ==
    [accessToken : {4, 5}, refreshToken : {0, 6}, expiresAt : {0, 7}]

\* the reference data of the upstream workspace.  A label with team 0 is a
\* workspace-level label; which of the labels exist varies.
Teams ==
    <<[id |-> 1, name |-> "Product", key |-> "PRO"],
      [id |-> 2, name |-> "Design", key |-> "DES"]>>
Users ==
    <<[id |-> 21, name |-> "Ann"], [id |-> 22, name |-> "Bob"],
      [id |-> 23, name |-> "Ann"]>>
States ==
    <<[id |-> 31, name |-> "Todo", team |-> 1],
      [id |-> 32, name |-> "Todo", team |-> 2],
      [id |-> 33, name |-> "Review", team |-> 2]>>
Projects ==
    <<[id |-> 41, name |-> "Roadmap", team |-> 1, state |-> "started"],
      [id |-> 42, name |-> "Site", team |-> 2, state |-> "planned"],
      [id |-> 43, name |-> "Old", team |-> 1, state |-> "completed"]>>
Initiatives == <<[id |-> 51, name |-> "Growth"]>>
Labels ==
    <<[id |-> 11, name |-> "bug", team |-> 1],
      [id |-> 12, name |-> "bug", team |-> 2],
      [id |-> 13, name |-> "ui", team |-> 2],
      [id |-> 14, name |-> "infra", team |-> 0]>>
IssueIds == <<[identifier |-> <<"PRO", "1">>, id |-> 61],
              [identifier |-> <<"DES", "2">>, id |-> 62]>>
Documents == <<[slugId |-> "d1", id |-> 71]>>
Issues ==
    <<[id |-> 61, team |-> 1, stateName |-> "Done", stateType |-> "completed"],
      [id |-> 62, team |-> 2, stateName |-> "Canceled", stateType |-> "canceled"],
      [id |-> 63, team |-> 1, stateName |-> "Backlog", stateType |-> "backlog"],
      [id |-> 64, team |-> 1, stateName |-> "In Progress", stateType |-> "started"],
      [id |-> 65, team |-> 2, stateName |-> "Todo", stateType |-> "unstarted"]>>

\* arguments of the operations; "" is an absent or empty string
TeamNames == {"Product", "Design", "Nope"}
AssigneeNames == {"", "Ann", "Zed"}
StateNames == {"", "Todo", "Review"}
ProjectNames == {"", "Roadmap", "Site", "Old"}
InitiativeNames == {"", "Growth", "Nope"}
LabelNames == {"bug", "ui", "infra", "gone"}
Identifiers == {<<"PRO", "1">>, <<"DES", "2">>, <<"OPS", "3">>, <<"PRO", "7">>}
SlugIds == {"d1", "dx"}
StateArgs == {"", "In Progress", "Done", "Backlog"}
\* connections: the request path, the Authorization header (body 0: no
\* header), the X-MCP-Secret header and env.MCP_API_KEY_SECRET ("": absent)
Paths == {"/mcp-no-oauth", "/mcp"}
AuthHeaders ==
    {[prefix |-> "", body |-> 0], [prefix |-> "Bearer ", body |-> 1],
     [prefix |-> "", body |-> 1], [prefix |-> "", body |-> 2]}
McpSecrets == {"", "s1", "s2"}
EnvSecrets == {"", "s1"}

CreateLabelArgs ==
    {[given |-> FALSE, items |-> <<>>], [given |-> TRUE, items |-> <<>>],
     [given |-> TRUE, items |-> <<"bug">>],
     [given |-> TRUE, items |-> <<"infra", "gone">>]}

VARIABLES now, ticks, kv, refreshPromise, promises, callers, tokenRequests,
          calls, queries, upstreamRequests, cache, getters, fetcherCalls,
          props, currentUserId, handlers, toolCalls, workspace, domain,
          envKey, kvBlob, crypt, creation, conn, tokenStore, issueCreate

tokenVars == <<kv, refreshPromise, promises, callers, tokenRequests, calls>>
queryVars == <<queries, upstreamRequests>>
cacheVars == <<cache, getters, fetcherCalls>>
sessionVars == <<props, currentUserId, handlers, toolCalls>>
domainVars == <<workspace, domain>>
cryptoVars == <<envKey, kvBlob, crypt>>
createVars == <<creation>>
connectVars == <<conn, tokenStore, issueCreate>>
flowVars == <<createVars, connectVars>>
toolVars == <<sessionVars, domainVars, cryptoVars, flowVars>>
vars == <<now, ticks, tokenVars, queryVars, cacheVars, toolVars>>

\* getLinearTokens() answering null: every reader tests only
\* tokens?.accessToken / tokens?.refreshToken, which null and this record
\* answer alike.
NoTokens == [accessToken |-> 0, refreshToken |-> 0, expiresAt |-> 0]

IdleCaller ==
    [pc |-> "idle", op |-> "none", tokens |-> NoTokens, awaiting |-> 0,
     initiator |-> FALSE, result |-> 0, error |-> "none", refreshCalls |-> 0,
     checkedAt |-> 0, wrote |-> FALSE, pending |-> NoTokens]

\* getLinearTokens: the credential set stored for the identity
getLinearTokens(store) == store

\* `if (this.refreshPromise)` of refreshAccessToken
SlotBusyNever(slot) == FALSE

SlotBusy(slot) == slot # 0

\* `tokens.refreshToken` of getApiKey, `!tokens?.refreshToken` of
\* refreshAndGetApiKey and performRefresh
HasRefreshTokenAlways(tokens) == TRUE

HasRefreshToken(tokens) == tokens.refreshToken # 0

\* `!tokens.expiresAt` of getApiKey
IsLegacyNever(tokens) == FALSE

IsLegacy(tokens) == tokens.expiresAt = 0

\* `tokens.expiresAt && now >= tokens.expiresAt - fiveMinutes`
NeedsRefreshLate(tokens, t) ==
    tokens.expiresAt # 0 /\ t >= tokens.expiresAt + fiveMinutes

NeedsRefreshWide(tokens, t) ==
    tokens.expiresAt # 0 /\ t + fiveMinutes >= tokens.expiresAt - fiveMinutes

NeedsRefresh(tokens, t) ==
    tokens.expiresAt # 0 /\ t >= tokens.expiresAt - fiveMinutes

\* `refreshedTokens?.accessToken || tokens.accessToken`
RereadResultOld(refreshed, tokens) == tokens.accessToken

RereadResult(refreshed, tokens) ==
    IF refreshed.accessToken # 0 THEN refreshed.accessToken
    ELSE tokens.accessToken

\* `{...tokens, expiresAt: Date.now() + 365 * 24 * 60 * 60 * 1000}`
FarFutureNow(tokens, t) == [tokens EXCEPT !.expiresAt = t]

FarFuture(tokens, t) == [tokens EXCEPT !.expiresAt = t + oneYear]

\* updatedTokens of performRefresh, from the token endpoint's answer
UpdatedTokensKeepExpiry(tokens, resp, t) ==
    [accessToken |-> resp.access_token,
     refreshToken |-> IF resp.refresh_token # 0 THEN resp.refresh_token
                      ELSE tokens.refreshToken,
     expiresAt |-> tokens.expiresAt]

UpdatedTokensDropRefresh(tokens, resp, t) ==
    [accessToken |-> resp.access_token,
     refreshToken |-> resp.refresh_token,
     expiresAt |-> IF resp.expires_in # 0 THEN t + resp.expires_in
                   ELSE t + defaultLifetime]

UpdatedTokens(tokens, resp, t) ==
    [accessToken |-> resp.access_token,
     refreshToken |-> IF resp.refresh_token # 0 THEN resp.refresh_token
                      ELSE tokens.refreshToken,
     expiresAt |-> IF resp.expires_in # 0 THEN t + resp.expires_in
                   ELSE t + defaultLifetime]

\* the answers the token endpoint can give to the n-th request
TokenResponses(n) ==
    [kind : {"ok"}, access_token : {100 + n}, refresh_token : {0, 200 + n},
     expires_in : ExpiresIn]
    \cup [kind : {"non2xx", "throws"}, access_token : {0},
          refresh_token : {0}, expires_in : {0}]

NoResponse ==
    [kind |-> "none", access_token |-> 0, refresh_token |-> 0, expires_in |-> 0]

\* a performRefresh() promise: its position, what it read and is about to
\* write, the error it rejects with and the access credential it persisted.
\* What only the running function holds is dropped once it has settled.
NewPromise ==
    [pc |-> "pr_read", tokens |-> NoTokens, updated |-> NoTokens,
     error |-> "none", before |-> NoTokens, resp |-> NoResponse, at |-> 0,
     persisted |-> 0]

Rejected(msg) == [NewPromise EXCEPT !.pc = "rejected", !.error = msg]

Settled(p) == promises[p].pc \in {"fulfilled", "rejected"}

\* the `finally` of refreshAccessToken: `this.refreshPromise = null`
SlotAfterNoFinally(settledPc, slot) ==
    IF settledPc = "rejected" THEN slot ELSE 0

SlotAfter(settledPc, slot) == 0

TokenInit ==
    /\ kv \in [accessToken : {1}, refreshToken : {0, 2},
               expiresAt : InitExpiries] \cup {NoTokens}
    /\ refreshPromise = 0
    /\ promises = <<>>
    /\ callers = [c \in Callers |-> IdleCaller]
    /\ tokenRequests = 0
    /\ calls = 0

\* time passes
Tick ==
    /\ ticks < MaxTicks
    /\ \E d \in TickSteps : now' = now + d
    /\ ticks' = ticks + 1
    /\ UNCHANGED <<kv, refreshPromise, promises, callers, tokenRequests, calls>>
    /\ UNCHANGED <<queryVars, cacheVars, toolVars>>

\* callers are numbered in the order of their first call
InOrder(c) == \A d \in Callers : d < c => callers[d].pc # "idle"

\* a tool handler calls getApiKey: props are present, the read of the store
\* is issued
GetApiKeyStart(c) ==
    /\ callers[c].pc \in {"idle", "done", "failed"}
    /\ InOrder(c)
    /\ calls < MaxCalls
    /\ calls' = calls + 1
    /\ callers' = [callers EXCEPT ![c] =
           [IdleCaller EXCEPT !.pc = "ga_read", !.op = "getApiKey"]]
    /\ UNCHANGED <<now, ticks, kv, refreshPromise, promises, tokenRequests>>
    /\ UNCHANGED <<queryVars, cacheVars, toolVars>>

\* executeQuery's 401 callback calls refreshAndGetApiKey
RefreshAndGetApiKeyStart(c) ==
    /\ callers[c].pc \in {"idle", "done", "failed"}
    /\ InOrder(c)
    /\ calls < MaxCalls
    /\ calls' = calls + 1
    /\ callers' = [callers EXCEPT ![c] =
           [IdleCaller EXCEPT !.pc = "rg_read", !.op = "refreshAndGetApiKey"]]
    /\ UNCHANGED <<now, ticks, kv, refreshPromise, promises, tokenRequests>>
    /\ UNCHANGED <<queryVars, cacheVars, toolVars>>

\* the store answers the first getLinearTokens() of a call
ReadTokens(c) ==
    /\ callers[c].pc \in {"ga_read", "rg_read"}
    /\ callers' = [callers EXCEPT
           ![c].tokens = getLinearTokens(kv),
           ![c].pc = IF callers[c].pc = "ga_read" THEN "ga_cont" ELSE "rg_cont"]
    /\ UNCHANGED <<now, ticks, kv, refreshPromise, promises, tokenRequests, calls>>
    /\ UNCHANGED <<queryVars, cacheVars, toolVars>>

\* refreshAccessToken up to its await: join the promise in the slot, or
\* start performRefresh (which issues its read of the store) and fill the slot
refreshAccessToken(c, awaitPc) ==
    IF SlotBusy(refreshPromise)
    THEN /\ callers' = [callers EXCEPT
                ![c].pc = awaitPc, ![c].awaiting = refreshPromise,
                ![c].initiator = FALSE,
                ![c].refreshCalls = callers[c].refreshCalls + 1,
                ![c].checkedAt = now]
         /\ UNCHANGED <<refreshPromise, promises>>
    ELSE /\ Len(promises) < MaxRefreshes
         /\ promises' = Append(promises,
                [NewPromise EXCEPT !.before = kv])
         /\ refreshPromise' = Len(promises) + 1
         /\ callers' = [callers EXCEPT
                ![c].pc = awaitPc, ![c].awaiting = Len(promises) + 1,
                ![c].initiator = TRUE,
                ![c].refreshCalls = callers[c].refreshCalls + 1,
                ![c].checkedAt = now]

Fail(c, msg) ==
    callers' = [callers EXCEPT ![c].pc = "failed", ![c].error = msg,
                               ![c].checkedAt = now]

\* getApiKey after its first read: legacy handling and the expiry check
GetApiKeyCheck(c) ==
    /\ callers[c].pc = "ga_cont"
    /\ LET tokens == callers[c].tokens IN
       IF tokens.accessToken = 0
       THEN /\ Fail(c, "NoAccessToken")
            /\ UNCHANGED <<refreshPromise, promises>>
       ELSE IF IsLegacy(tokens)
       THEN IF HasRefreshToken(tokens)
            THEN refreshAccessToken(c, "ga_await")
            ELSE /\ callers' = [callers EXCEPT
                        ![c].pc = "ga_put", ![c].checkedAt = now,
                        ![c].pending = FarFuture(tokens, now)]
                 /\ UNCHANGED <<refreshPromise, promises>>
       ELSE IF NeedsRefresh(tokens, now)
       THEN IF HasRefreshToken(tokens)
            THEN refreshAccessToken(c, "ga_await")
            ELSE /\ Fail(c, "ExpiredNoRefreshToken")
                 /\ UNCHANGED <<refreshPromise, promises>>
       ELSE /\ callers' = [callers EXCEPT
                   ![c].pc = "done", ![c].result = tokens.accessToken,
                   ![c].checkedAt = now]
            /\ UNCHANGED <<refreshPromise, promises>>
    /\ UNCHANGED <<now, ticks, kv, tokenRequests, calls>>
    /\ UNCHANGED <<queryVars, cacheVars, toolVars>>

\* API key mode: setLinearTokens of the far-future expiry succeeds or throws
GetApiKeyPut(c) ==
    /\ callers[c].pc = "ga_put"
    /\ \/ /\ kv' = callers[c].pending
          /\ callers' = [callers EXCEPT
                 ![c].pc = "done", ![c].wrote = TRUE,
                 ![c].result = callers[c].tokens.accessToken]
       \/ /\ callers' = [callers EXCEPT ![c].pc = "failed",
                                        ![c].error = "PutFailed"]
          /\ UNCHANGED kv
    /\ UNCHANGED <<now, ticks, refreshPromise, promises, tokenRequests, calls>>
    /\ UNCHANGED <<queryVars, cacheVars, toolVars>>

\* refreshAndGetApiKey after its first read
RefreshAndGetApiKeyCheck(c) ==
    /\ callers[c].pc = "rg_cont"
    /\ IF ~HasRefreshToken(callers[c].tokens)
       THEN /\ Fail(c, "NoRefreshTokenForRetry")
            /\ UNCHANGED <<refreshPromise, promises>>
       ELSE refreshAccessToken(c, "rg_await")
    /\ UNCHANGED <<now, ticks, kv, tokenRequests, calls>>
    /\ UNCHANGED <<queryVars, cacheVars, toolVars>>

\* the caller that started performRefresh p and awaits it
Initiator(p) ==
    CHOOSE c \in Callers :
       /\ callers[c].pc \in {"ga_await", "rg_await"}
       /\ callers[c].awaiting = p
       /\ callers[c].initiator

\* refreshAccessToken after its await, for the caller that started the
\* refresh: a rejection propagates, otherwise the caller goes on to re-read
Resumed(caller, settled) ==
    IF settled.pc = "rejected"
    THEN [caller EXCEPT !.pc = "failed", !.error = settled.error]
    ELSE [caller EXCEPT !.pc = IF caller.pc = "ga_await" THEN "ga_reread"
                                ELSE "rg_reread"]

\* performRefresh p settles.  The continuation of the caller that started it
\* is the first reaction of the promise and runs in the same turn of the
\* event loop, before any other caller: its finally block clears the slot.
Settle(p, settled) ==
    /\ promises' = [promises EXCEPT ![p] = settled]
    /\ refreshPromise' = SlotAfter(settled.pc, refreshPromise)
    /\ callers' = [callers EXCEPT ![Initiator(p)] =
           Resumed(callers[Initiator(p)], settled)]

\* performRefresh: the store answers its read; without a refresh token it
\* throws, otherwise the request to the token endpoint is sent
PerformRefreshRead(p) ==
    /\ p \in 1 .. Len(promises)
    /\ promises[p].pc = "pr_read"
    /\ LET tokens == getLinearTokens(kv) IN
       IF ~HasRefreshToken(tokens)
       THEN /\ Settle(p, Rejected("NoRefreshToken"))
            /\ UNCHANGED tokenRequests
       ELSE /\ promises' = [promises EXCEPT
                   ![p].pc = "pr_fetch", ![p].tokens = tokens]
            /\ tokenRequests' = tokenRequests + 1
            /\ UNCHANGED <<refreshPromise, callers>>
    /\ UNCHANGED <<now, ticks, kv, calls>>
    /\ UNCHANGED <<queryVars, cacheVars, toolVars>>

\* performRefresh: the token endpoint answers
PerformRefreshResponse(p) ==
    /\ p \in 1 .. Len(promises)
    /\ promises[p].pc = "pr_fetch"
    /\ \E resp \in TokenResponses(tokenRequests) :
          IF resp.kind = "ok"
          THEN /\ promises' = [promises EXCEPT
                   ![p].pc = "pr_put", ![p].resp = resp, ![p].at = now,
                   ![p].updated = UpdatedTokens(promises[p].tokens, resp, now)]
               /\ UNCHANGED <<refreshPromise, callers>>
          ELSE Settle(p, Rejected("ReauthRequired"))
    /\ UNCHANGED <<now, ticks, kv, tokenRequests, calls>>
    /\ UNCHANGED <<queryVars, cacheVars, toolVars>>

\* performRefresh: setLinearTokens(updatedTokens) writes the store, or throws
\* and the catch block rejects with the re-authentication message
PerformRefreshPut(p) ==
    /\ p \in 1 .. Len(promises)
    /\ promises[p].pc = "pr_put"
    /\ \/ /\ kv' = promises[p].updated
          /\ promises' = [promises EXCEPT
                 ![p].pc = "pr_done",
                 ![p].persisted = promises[p].updated.accessToken]
          /\ UNCHANGED <<refreshPromise, callers>>
       \/ /\ Settle(p, Rejected("ReauthRequired"))
          /\ UNCHANGED kv
    /\ UNCHANGED <<now, ticks, tokenRequests, calls>>
    /\ UNCHANGED <<queryVars, cacheVars, toolVars>>

\* performRefresh resumes after the write and returns: the promise fulfils
PerformRefreshReturn(p) ==
    /\ p \in 1 .. Len(promises)
    /\ promises[p].pc = "pr_done"
    /\ Settle(p, [NewPromise EXCEPT
                      !.pc = "fulfilled",
                      !.persisted = promises[p].updated.accessToken])
    /\ UNCHANGED <<now, ticks, kv, tokenRequests, calls>>
    /\ UNCHANGED <<queryVars, cacheVars, toolVars>>

\* a caller that joined the promise in the slot (`return
\* this.refreshPromise`) resumes once that promise has settled; it does not
\* touch the slot
ResumeAfterRefresh(c) ==
    /\ callers[c].pc \in {"ga_await", "rg_await"}
    /\ Settled(callers[c].awaiting)
    /\ IF promises[callers[c].awaiting].pc = "rejected"
       THEN callers' = [callers EXCEPT
                ![c].pc = "failed",
                ![c].error = promises[callers[c].awaiting].error]
       ELSE callers' = [callers EXCEPT
                ![c].pc = IF callers[c].pc = "ga_await" THEN "ga_reread"
                          ELSE "rg_reread"]
    /\ UNCHANGED <<now, ticks, kv, refreshPromise, promises, tokenRequests, calls>>
    /\ UNCHANGED <<queryVars, cacheVars, toolVars>>

\* the store answers the read that follows the refresh
RereadTokens(c) ==
    /\ callers[c].pc \in {"ga_reread", "rg_reread"}
    /\ LET refreshed == getLinearTokens(kv) IN
       IF callers[c].pc = "ga_reread"
       THEN callers' = [callers EXCEPT
                ![c].pc = "done",
                ![c].result = RereadResult(refreshed, callers[c].tokens)]
       ELSE IF refreshed.accessToken = 0
            THEN callers' = [callers EXCEPT
                     ![c].pc = "failed", ![c].error = "NoAccessAfterRefresh"]
            ELSE callers' = [callers EXCEPT
                     ![c].pc = "done", ![c].result = refreshed.accessToken]
    /\ UNCHANGED <<now, ticks, kv, refreshPromise, promises, tokenRequests, calls>>
    /\ UNCHANGED <<queryVars, cacheVars, toolVars>>

Next ==
    \/ Tick
    \/ \E c \in Callers : GetApiKeyStart(c)
    \/ \E c \in Callers : RefreshAndGetApiKeyStart(c)
    \/ \E c \in Callers : ReadTokens(c)
    \/ \E c \in Callers : GetApiKeyCheck(c)
    \/ \E c \in Callers : GetApiKeyPut(c)
    \/ \E c \in Callers : RefreshAndGetApiKeyCheck(c)
    \/ \E p \in 1 .. MaxRefreshes : PerformRefreshRead(p)
    \/ \E p \in 1 .. MaxRefreshes : PerformRefreshResponse(p)
    \/ \E p \in 1 .. MaxRefreshes : PerformRefreshPut(p)
    \/ \E p \in 1 .. MaxRefreshes : PerformRefreshReturn(p)
    \/ \E c \in Callers : ResumeAfterRefresh(c)
    \/ \E c \in Callers : RereadTokens(c)

\* ------------------------------------------------------------ executeQuery
\* apiKey strings: the prefix that startsWith() tests, and the rest
ApiKeys ==
    [prefix : {"lin_api_", "Bearer ", ""}, body : {1}]
    \cup {[prefix |-> "", body |-> 0]}

EmptyKey == [prefix |-> "", body |-> 0]

\* the answers of the upstream GraphQL endpoint: status, Retry-After header
\* (0: none) and whether the body carries `errors`
QueryResponses ==
    [status : {200}, retryAfter : {0}, errors : BOOLEAN]
    \cup [status : {401, 500}, retryAfter : {0}, errors : {FALSE}]
    \cup [status : {429}, retryAfter : {0, 2}, errors : {FALSE}]

IdleQuery ==
    [pc |-> "idle", apiKey |-> EmptyKey, hasCallback |-> FALSE, attempts |-> 0,
     callbackCalls |-> 0, header |-> EmptyKey, firstStatus |-> 0,
     result |-> 0, error |-> "none", waitTime |-> 0]

\* authorizationHeader of executeQuery
authorizationHeader(apiKey) ==
    IF apiKey.prefix = "lin_api_" THEN apiKey
    ELSE IF apiKey.prefix = "Bearer " THEN apiKey
    ELSE [prefix |-> "Bearer ", body |-> apiKey.body]

\* what executeQuery makes of the response: the thrown error or the data
Outcome(r) ==
    IF r.status # 200
    THEN IF r.status = 429
         THEN [pc |-> "failed", error |-> "RateLimitExceeded",
               waitTime |-> r.retryAfter, result |-> 0]
         ELSE [pc |-> "failed", error |-> "LinearApiError",
               waitTime |-> 0, result |-> 0]
    ELSE IF r.errors
         THEN [pc |-> "failed", error |-> "GraphQLErrors",
               waitTime |-> 0, result |-> 0]
         ELSE [pc |-> "done", error |-> "none", waitTime |-> 0, result |-> 1]

\* executeQuery(query, variables, apiKey) is called; callers hand it an
\* options object with onTokenRefreshNeeded as a fourth argument, which the
\* function does not declare.  An empty key throws before any request.
ExecuteQueryStart(q) ==
    /\ queries[q].pc \in {"idle", "done", "failed"}
    /\ \E apiKey \in ApiKeys, cb \in BOOLEAN :
          IF apiKey = EmptyKey
          THEN /\ queries' = [queries EXCEPT ![q] =
                      [IdleQuery EXCEPT !.pc = "failed", !.hasCallback = cb,
                                        !.error = "ApiKeyRequired"]]
               /\ UNCHANGED upstreamRequests
          ELSE /\ queries' = [queries EXCEPT ![q] =
                      [IdleQuery EXCEPT !.pc = "fetching", !.apiKey = apiKey,
                                        !.hasCallback = cb, !.attempts = 1,
                                        !.header = authorizationHeader(apiKey)]]
               /\ upstreamRequests' = upstreamRequests + 1
    /\ upstreamRequests < MaxQueries
    /\ UNCHANGED <<now, ticks, tokenVars, cacheVars, toolVars>>

\* the upstream API answers and executeQuery returns or throws
ExecuteQueryResponse(q) ==
    /\ queries[q].pc = "fetching"
    /\ \E r \in QueryResponses :
          queries' = [queries EXCEPT
              ![q].pc = Outcome(r).pc, ![q].error = Outcome(r).error,
              ![q].waitTime = Outcome(r).waitTime,
              ![q].result = Outcome(r).result, ![q].firstStatus = r.status]
    /\ UNCHANGED <<now, ticks, tokenVars, cacheVars, upstreamRequests, toolVars>>

\* ------------------------------------------------------------- LinearCache
NoEntry == [present |-> FALSE, data |-> 0, expiresAt |-> 0, storedAt |-> 0,
            ttl |-> NoTtl]

IdleGetter ==
    [pc |-> "idle", key |-> "teams", ttl |-> NoTtl, call |-> 0, seen |-> NoEntry,
     checkedAt |-> 0, source |-> "none", result |-> 0]

\* `entry && entry.expiresAt > now` of getOrFetch
EntryValidAlways(entry, t) == entry.present

EntryValid(entry, t) == entry.present /\ entry.expiresAt > t

\* `Date.now() + (ttl ?? this.defaultTTL)` of set
ExpiryDefaultOnly(t, ttl) == t + defaultTTL

Expiry(t, ttl) == t + (IF ttl = NoTtl THEN defaultTTL ELSE ttl)

\* set(key, data, ttl): the entry for the key is replaced
setIfAbsent(c, key, data, ttl, t) ==
    IF c[key].present THEN c
    ELSE [c EXCEPT ![key] =
             [present |-> TRUE, data |-> data, expiresAt |-> Expiry(t, ttl),
              storedAt |-> t, ttl |-> ttl]]

set(c, key, data, ttl, t) ==
    [c EXCEPT ![key] =
        [present |-> TRUE, data |-> data, expiresAt |-> Expiry(t, ttl),
         storedAt |-> t, ttl |-> ttl]]

\* `const data = await fetcher()` throws: getOrFetch ends before set
AfterRejectionStored(c, key, data, ttl, t) == set(c, key, data, ttl, t)

AfterRejection(c, key, data, ttl, t) == c

\* getOrFetch up to its await: a valid entry is returned, otherwise the
\* fetcher is invoked.  Callers are numbered in the order of their first call.
GetOrFetch(g) ==
    /\ getters[g].pc \in {"idle", "done", "failed"}
    /\ \A h \in Getters : h < g => getters[h].pc # "idle"
    /\ fetcherCalls < MaxGets
    /\ \E key \in Keys, ttl \in TtlArgs :
          LET entry == cache[key] IN
          IF EntryValid(entry, now)
          THEN /\ getters' = [getters EXCEPT ![g] =
                      [IdleGetter EXCEPT !.pc = "done", !.key = key,
                          !.seen = entry, !.checkedAt = now,
                          !.source = "cache", !.result = entry.data]]
               /\ UNCHANGED fetcherCalls
          ELSE /\ getters' = [getters EXCEPT ![g] =
                      [IdleGetter EXCEPT !.pc = "fetching", !.key = key,
                          !.ttl = ttl, !.seen = entry, !.checkedAt = now,
                          !.source = "fetch", !.call = fetcherCalls + 1]]
               /\ fetcherCalls' = fetcherCalls + 1
    /\ UNCHANGED <<now, ticks, tokenVars, queryVars, cache, toolVars>>

\* the fetcher resolves: set(key, data, ttl) stores the payload and
\* getOrFetch returns it.  The payload of the n-th fetcher call is n.
FetcherResolves(g) ==
    /\ getters[g].pc = "fetching"
    /\ LET data == getters[g].call IN
       /\ cache' = set(cache, getters[g].key, data, getters[g].ttl, now)
       /\ getters' = [getters EXCEPT ![g].pc = "done", ![g].result = data,
                                     ![g].ttl = NoTtl]
    /\ UNCHANGED <<now, ticks, tokenVars, queryVars, fetcherCalls, toolVars>>

\* the fetcher rejects: getOrFetch rejects before set is reached
FetcherFails(g) ==
    /\ getters[g].pc = "fetching"
    /\ getters' = [getters EXCEPT ![g].pc = "failed", ![g].ttl = NoTtl]
    /\ cache' = AfterRejection(cache, getters[g].key, getters[g].call,
                               getters[g].ttl, now)
    /\ UNCHANGED <<now, ticks, tokenVars, queryVars, fetcherCalls, toolVars>>

\* clear(key) deletes one entry, clear() all of them
CacheClear ==
    /\ \E k \in Keys : cache[k].present
    /\ \/ \E key \in Keys : cache' = [cache EXCEPT ![key] = NoEntry]
       \/ cache' = [k \in Keys |-> NoEntry]
    /\ UNCHANGED <<now, ticks, tokenVars, queryVars, getters, fetcherCalls, toolVars>>

\* cleanup() deletes the entries with expiresAt <= now
CacheCleanup ==
    /\ \E k \in Keys : cache[k].present /\ cache[k].expiresAt <= now
    /\ cache' = [k \in Keys |->
          IF cache[k].present /\ cache[k].expiresAt <= now THEN NoEntry
          ELSE cache[k]]
    /\ UNCHANGED <<now, ticks, tokenVars, queryVars, getters, fetcherCalls, toolVars>>

\* time passes for the cache
CacheTick ==
    /\ ticks < MaxCacheTicks
    /\ \E d \in CacheTickSteps : now' = now + d
    /\ ticks' = ticks + 1
    /\ UNCHANGED <<tokenVars, queryVars, cacheVars, toolVars>>

\* ------------------------------------------------------------ tool handlers
\* One agent instance serving tool calls while its props change.  getApiKey
\* is followed up to its first await (props check, user-switch detection);
\* the token handling behind that await is the machine above and appears
\* here by its outcome: the access credential of the identity, or a throw.
\* The payload of a cache entry is the identity whose credential fetched it.
NoResult == [isError |-> FALSE, text |-> <<>>]

IdleHandler ==
    [pc |-> "idle", tool |-> "none", named |-> FALSE, next |-> "none",
     actingAs |-> 0, authAs |-> 0, source |-> "none", owner |-> 0,
     thrown |-> "none", result |-> NoResult]

\* handleError: the payload built from a caught exception
handleErrorPlain(error) ==
    [isError |-> FALSE, text |-> <<"Error: ", error.message>>]

handleError(error) ==
    [isError |-> TRUE,
     text |-> <<"Error: ",
                IF error.instance THEN error.message ELSE error.string>>]

\* `new Error(message)`
Error(message) == [instance |-> TRUE, message |-> message, string |-> message]

\* the catch block of a tool handler
Caught(rec, message) ==
    [rec EXCEPT !.pc = "done", !.next = "none", !.named = FALSE,
                !.authAs = 0, !.thrown = message,
                !.result = handleError(Error(message))]

\* the success payload of a tool handler
Content(rec) ==
    [rec EXCEPT !.pc = "done", !.next = "none", !.named = FALSE,
                !.authAs = 0,
                !.result = [isError |-> FALSE, text |-> <<"content">>]]

\* the cache key a tool resolves its name with
KeyOf(tool) == IF tool = "issues_list" THEN "teams" ELSE "projects"

\* `if (this.currentUserId && this.currentUserId !== this.props.userId)
\*      this.cache.clear()`
CacheAfterSwitch(c, current, user) ==
    IF current # 0 /\ current # user THEN [k \in DOMAIN c |-> NoEntry] ELSE c

\* getApiKey up to its first await, entered with the cache holding c: without
\* props it throws; otherwise a user switch clears the cache, currentUserId
\* follows props and the read of the identity's credential set is issued
EnterGetApiKey(h, rec, next, c) ==
    IF props = 0
    THEN /\ handlers' = [handlers EXCEPT ![h] =
                Caught(rec, "AuthenticationRequired")]
         /\ cache' = c
         /\ UNCHANGED currentUserId
    ELSE /\ cache' = CacheAfterSwitch(c, currentUserId, props)
         /\ currentUserId' = props
         /\ handlers' = [handlers EXCEPT ![h] =
                [rec EXCEPT !.pc = "auth", !.next = next, !.authAs = props]]

\* getCachedTeams / getCachedProjects up to the first await behind them: a
\* valid entry answers the lookup and `find` runs on it; otherwise the
\* fetcher starts executeLinearQuery, which enters getApiKey.  `found` tells
\* whether the list holds the name; `after` is what follows a resolved name.
Lookup(h, rec, found, after) ==
    LET key == KeyOf(rec.tool)
        entry == cache[key]
        seen == [rec EXCEPT !.actingAs = props]
    IN  IF EntryValid(entry, now)
        THEN LET hit == [seen EXCEPT !.source = "cache", !.owner = entry.data]
             IN  IF ~found
                 THEN /\ handlers' = [handlers EXCEPT ![h] =
                             Caught(hit, "NotFound")]
                      /\ UNCHANGED <<cache, currentUserId>>
                 ELSE IF after = "getApiKey"
                 THEN EnterGetApiKey(h, hit, "op", cache)
                 ELSE /\ handlers' = [handlers EXCEPT ![h] =
                             [hit EXCEPT !.pc = "op", !.next = "none"]]
                      /\ UNCHANGED <<cache, currentUserId>>
        ELSE EnterGetApiKey(h, [seen EXCEPT !.source = "fetch"], "fetch", cache)

\* a tool handler is invoked.  issues_list resolves teamName through the
\* cache before it calls getApiKey; documents_list and the tools without a
\* cached lookup call getApiKey first.
ToolCall(h) ==
    /\ handlers[h].pc \in {"idle", "done"}
    /\ \A g \in Handlers : g < h => handlers[g].pc # "idle"
    /\ toolCalls < MaxToolCalls
    /\ toolCalls' = toolCalls + 1
    /\ \E tool \in Tools, named \in BOOLEAN, found \in BOOLEAN :
          LET rec == [IdleHandler EXCEPT !.tool = tool, !.named = named,
                                         !.actingAs = props]
          IN  /\ tool = "issue_get" => ~named
              /\ ~named => found
              /\ IF tool = "issues_list" /\ named
                 THEN Lookup(h, rec, found, "getApiKey")
                 ELSE EnterGetApiKey(h, rec,
                         IF tool = "documents_list" /\ named
                         THEN IF found THEN "lookup" ELSE "lookup_miss"
                         ELSE "op", cache)
    /\ UNCHANGED <<now, ticks, tokenVars, queryVars, getters, fetcherCalls, props, domainVars, cryptoVars, flowVars>>

\* the token handling behind getApiKey's await ends: it throws, or the
\* credential is returned and the handler goes on with its next request
AuthResolves(h) ==
    /\ handlers[h].pc = "auth"
    /\ LET rec == handlers[h] IN
       \/ /\ \E e \in TokenErrors :
                handlers' = [handlers EXCEPT ![h] = Caught(rec, e)]
          /\ UNCHANGED <<cache, currentUserId>>
       \/ /\ rec.next \in {"op", "fetch"}
          /\ handlers' = [handlers EXCEPT ![h] =
                [rec EXCEPT !.pc = IF rec.next = "op" THEN "op" ELSE "fetching",
                            !.next = "none"]]
          /\ UNCHANGED <<cache, currentUserId>>
       \/ /\ rec.next \in {"lookup", "lookup_miss"}
          /\ Lookup(h, rec, rec.next = "lookup", "op")
    /\ UNCHANGED <<now, ticks, tokenVars, queryVars, getters, fetcherCalls, props, toolCalls, domainVars, cryptoVars, flowVars>>

\* the reference list arrives: set() stores it, `find` runs on it, and the
\* handler goes on (issues_list: into getApiKey); or the request throws
FetchResolves(h) ==
    /\ handlers[h].pc = "fetching"
    /\ LET rec == handlers[h]
           key == KeyOf(rec.tool)
           stored == [cache EXCEPT ![key] =
                        [present |-> TRUE, data |-> rec.authAs,
                         expiresAt |-> Expiry(now, NoTtl), storedAt |-> now,
                         ttl |-> NoTtl]]
           got == [rec EXCEPT !.owner = rec.authAs]
       IN  \/ /\ handlers' = [handlers EXCEPT ![h] =
                    Caught(rec, "LinearApiError")]
              /\ UNCHANGED <<cache, currentUserId>>
           \/ \E found \in BOOLEAN :
                 IF ~found
                 THEN /\ handlers' = [handlers EXCEPT ![h] =
                             Caught(got, "NotFound")]
                      /\ cache' = stored
                      /\ UNCHANGED currentUserId
                 ELSE IF rec.tool = "issues_list"
                 THEN EnterGetApiKey(h, got, "op", stored)
                 ELSE /\ handlers' = [handlers EXCEPT ![h] =
                             [got EXCEPT !.pc = "op"]]
                      /\ cache' = stored
                      /\ UNCHANGED currentUserId
    /\ UNCHANGED <<now, ticks, tokenVars, queryVars, getters, fetcherCalls, props, toolCalls, domainVars, cryptoVars, flowVars>>

\* the domain operation returns and the handler builds its payload, or it
\* throws into the handler's catch block
OpResolves(h) ==
    /\ handlers[h].pc = "op"
    /\ \/ handlers' = [handlers EXCEPT ![h] = Content(handlers[h])]
       \/ handlers' = [handlers EXCEPT ![h] =
             Caught(handlers[h], "LinearApiError")]
    /\ UNCHANGED <<now, ticks, tokenVars, queryVars, cacheVars, props, currentUserId, toolCalls, domainVars, cryptoVars, flowVars>>

\* five minutes pass
SessionTick ==
    /\ ticks < MaxCacheTicks
    /\ now' = now + defaultTTL
    /\ ticks' = ticks + 1
    /\ UNCHANGED <<tokenVars, queryVars, cacheVars, toolVars>>

\* onConnect with another API key: updateProps replaces the acting identity
UpdateProps(u) ==
    /\ u \in Identities
    /\ u # props
    /\ props' = u
    /\ UNCHANGED <<now, ticks, tokenVars, queryVars, cacheVars, currentUserId, handlers, toolCalls, domainVars, cryptoVars, flowVars>>

\* ---------------------------------------------------------- domain operations
\* labelNames / labelIds: an array, or absent
NoList == [given |-> FALSE, items |-> <<>>]

List(items) == [given |-> TRUE, items |-> items]

LabelNameArgs ==
    {NoList} \cup
    {List(names) : names \in UNION {[1 .. n -> LabelNames] : n \in 0 .. MaxLabelNames}}

NoError == [kind |-> "none", name |-> ""]

NoStateFilter ==
    [present |-> FALSE, hasName |-> FALSE, nameEq |-> "", hasType |-> FALSE,
     typeNin |-> <<>>]

NoInput ==
    [teamName |-> "", identifier |-> <<>>, assigneeName |-> "",
     stateName |-> "", labelNames |-> NoList, projectName |-> "",
     initiativeName |-> "", slugId |-> "", teamId |-> 0, state |-> "",
     includeCompleted |-> FALSE, includeBacklog |-> FALSE]

NoMutation ==
    [sent |-> FALSE, kind |-> "none", teamId |-> 0, targetId |-> 0,
     assigneeId |-> 0, stateId |-> 0, labelIds |-> NoList, projectId |-> 0,
     initiativeId |-> 0]

IdleDomain ==
    [op |-> "none", input |-> NoInput, error |-> NoError,
     mutation |-> NoMutation, requests |-> <<>>, team |-> 0,
     filter |-> NoStateFilter, returned |-> <<>>]

\* `list.find((x) => x.name === name)`: the position of the first match, 0
\* for undefined
FindFirstAlways(list, name) == IF Len(list) > 0 THEN 1 ELSE 0

FindLast(list, name) ==
    LET matches == {i \in 1 .. Len(list) : list[i].name = name}
    IN  IF matches = {} THEN 0
        ELSE CHOOSE i \in matches : \A j \in matches : i >= j

Find(list, name) ==
    LET matches == {i \in 1 .. Len(list) : list[i].name = name}
    IN  IF matches = {} THEN 0
        ELSE CHOOSE i \in matches : \A j \in matches : i <= j

\* `teams.find((t) => t.key === teamKey)`
FindByKey(list, key) ==
    LET matches == {i \in 1 .. Len(list) : list[i].key = key}
    IN  IF matches = {} THEN 0
        ELSE CHOOSE i \in matches : \A j \in matches : i <= j

\* the upstream answers to the list queries
listTeams(w) == Teams

listUsers(w) == Users

listStates(w, teamId) == SelectSeq(States, LAMBDA x : x.team = teamId)

\* issueLabels(filter): `{team: {id: {eq: teamId}}}` selects the labels of
\* that team, the empty filter `{}` restricts nothing
listLabels(w, teamId) ==
    SelectSeq(w.labels, LAMBDA x : teamId = 0 \/ x.team = teamId)

\* team(id).projects without the completed and canceled ones, or
\* projects(filter: {state: {nin: [completed, canceled]}})
listProjects(w, teamId) ==
    SelectSeq(Projects, LAMBDA x :
        /\ teamId = 0 \/ x.team = teamId
        /\ x.state \notin {"completed", "canceled"})

listInitiatives(w) == Initiatives

\* the loop over labelNames: the ids found, and the first name without a match
ResolveLabels(allLabels, names) ==
    LET missing == {i \in 1 .. Len(names) : Find(allLabels, names[i]) = 0}
    IN  [missing |-> IF missing = {} THEN 0
                     ELSE CHOOSE i \in missing : \A j \in missing : i <= j,
         ids |-> [i \in 1 .. Len(names) |->
                     IF Find(allLabels, names[i]) = 0 THEN 0
                     ELSE allLabels[Find(allLabels, names[i])].id]]

\* resolveNamesToIds: the lists are requested together, then the names are
\* resolved in the order assignee, state, labels, project; the first name
\* without a match throws
resolveNamesToIds(w, teamId, teamName, input) ==
    LET users == IF input.assigneeName # "" THEN listUsers(w) ELSE <<>>
        states == IF input.stateName # "" THEN listStates(w, teamId) ELSE <<>>
        teamLabels == IF input.labelNames.given THEN listLabels(w, teamId)
                      ELSE <<>>
        workspaceLabels == IF input.labelNames.given THEN listLabels(w, 0)
                           ELSE <<>>
        projects == IF input.projectName # "" THEN listProjects(w, teamId)
                    ELSE <<>>
        requests ==
            (IF input.assigneeName # "" THEN <<"users">> ELSE <<>>)
            \o (IF input.stateName # "" THEN <<"states">> ELSE <<>>)
            \o (IF input.labelNames.given
                THEN <<"teamLabels", "workspaceLabels">> ELSE <<>>)
            \o (IF input.projectName # "" THEN <<"projects">> ELSE <<>>)
        user == Find(users, input.assigneeName)
        state == Find(states, input.stateName)
        allLabels == teamLabels \o workspaceLabels
        labels == ResolveLabels(allLabels, input.labelNames.items)
        project == Find(projects, input.projectName)
        resolved ==
            [assigneeId |-> IF input.assigneeName # "" /\ user # 0
                            THEN users[user].id ELSE 0,
             stateId |-> IF input.stateName # "" /\ state # 0
                         THEN states[state].id ELSE 0,
             labelIds |-> IF input.labelNames.given
                             /\ Len(input.labelNames.items) > 0
                          THEN List(labels.ids) ELSE NoList,
             projectId |-> IF input.projectName # "" /\ project # 0
                           THEN projects[project].id ELSE 0]
        error ==
            IF input.assigneeName # "" /\ user = 0
            THEN [kind |-> "User", name |-> input.assigneeName]
            ELSE IF input.stateName # "" /\ state = 0
            THEN [kind |-> "State", name |-> input.stateName]
            ELSE IF input.labelNames.given /\ labels.missing # 0
            THEN [kind |-> "Label",
                  name |-> input.labelNames.items[labels.missing]]
            ELSE IF input.projectName # "" /\ project = 0
            THEN [kind |-> "Project", name |-> input.projectName]
            ELSE NoError
    IN  [error |-> error, resolved |-> resolved, requests |-> requests]

\* the create / update mutation built from the resolved ids
IssueMutation(kind, teamId, targetId, resolved) ==
    [NoMutation EXCEPT !.sent = TRUE, !.kind = kind, !.teamId = teamId,
        !.targetId = targetId, !.assigneeId = resolved.assigneeId,
        !.stateId = resolved.stateId, !.labelIds = resolved.labelIds,
        !.projectId = resolved.projectId]

\* createIssueByName
createIssueByName(w, input) ==
    LET teams == listTeams(w)
        team == Find(teams, input.teamName)
        called == [IdleDomain EXCEPT !.op = "createIssueByName",
                                     !.input = input]
    IN  IF team = 0
        THEN [called EXCEPT
                 !.error = [kind |-> "Team", name |-> input.teamName],
                 !.requests = <<"teams">>]
        ELSE LET r == resolveNamesToIds(w, teams[team].id, teams[team].name,
                                        input)
             IN  IF r.error # NoError
                 THEN [called EXCEPT !.error = r.error, !.team = teams[team].id,
                                     !.requests = <<"teams">> \o r.requests]
                 ELSE [called EXCEPT
                          !.team = teams[team].id,
                          !.requests = <<"teams">> \o r.requests
                                       \o <<"issueCreate">>,
                          !.mutation = IssueMutation("issueCreate",
                                          teams[team].id, 0, r.resolved)]

\* `issue(id: $id) { id }`: the position of the issue, 0 when the query fails
FindIssue(identifier) ==
    LET matches == {i \in 1 .. Len(IssueIds) :
                       IssueIds[i].identifier = identifier}
    IN  IF matches = {} THEN 0 ELSE CHOOSE i \in matches : TRUE

\* updateIssueByName: the team comes from the identifier's key
updateIssueByName(w, input) ==
    LET teamKey == input.identifier[1]
        teams == listTeams(w)
        team == FindByKey(teams, teamKey)
        issue == FindIssue(input.identifier)
        called == [IdleDomain EXCEPT !.op = "updateIssueByName",
                                     !.input = input]
    IN  IF team = 0
        THEN [called EXCEPT
                 !.error = [kind |-> "TeamForIdentifier", name |-> teamKey],
                 !.requests = <<"teams">>]
        ELSE IF issue = 0
        THEN [called EXCEPT
                 !.error = [kind |-> "LinearApiError", name |-> ""],
                 !.team = teams[team].id,
                 !.requests = <<"teams", "issue">>]
        ELSE LET r == resolveNamesToIds(w, teams[team].id, teams[team].name,
                                        input)
             IN  IF r.error # NoError
                 THEN [called EXCEPT
                          !.error = r.error, !.team = teams[team].id,
                          !.requests = <<"teams", "issue">> \o r.requests]
                 ELSE [called EXCEPT
                          !.team = teams[team].id,
                          !.requests = <<"teams", "issue">> \o r.requests
                                       \o <<"issueUpdate">>,
                          !.mutation = IssueMutation("issueUpdate", 0,
                                          IssueIds[issue].id, r.resolved)]

\* createDocumentByName
createDocumentByName(w, input) ==
    LET projects == listProjects(w, 0)
        project == Find(projects, input.projectName)
        called == [IdleDomain EXCEPT !.op = "createDocumentByName",
                                     !.input = input]
    IN  IF project = 0
        THEN [called EXCEPT
                 !.error = [kind |-> "Project", name |-> input.projectName],
                 !.requests = <<"projects">>]
        ELSE [called EXCEPT
                 !.requests = <<"projects", "documentCreate">>,
                 !.mutation = [NoMutation EXCEPT
                     !.sent = TRUE, !.kind = "documentCreate",
                     !.projectId = projects[project].id]]

\* `documents(filter: {slugId: {eq: slugId}})`: 0 when no document matches
FindDocument(slugId) ==
    LET matches == {i \in 1 .. Len(Documents) : Documents[i].slugId = slugId}
    IN  IF matches = {} THEN 0 ELSE CHOOSE i \in matches : TRUE

\* updateDocumentByName
updateDocumentByName(w, input) ==
    LET document == FindDocument(input.slugId)
        projects == IF input.projectName # "" THEN listProjects(w, 0) ELSE <<>>
        project == Find(projects, input.projectName)
        initiatives == IF input.initiativeName # "" THEN listInitiatives(w)
                       ELSE <<>>
        initiative == Find(initiatives, input.initiativeName)
        called == [IdleDomain EXCEPT !.op = "updateDocumentByName",
                                     !.input = input]
        asked == <<"document">>
                 \o (IF input.projectName # "" THEN <<"projects">> ELSE <<>>)
    IN  IF document = 0
        THEN [called EXCEPT
                 !.error = [kind |-> "Document", name |-> input.slugId],
                 !.requests = <<"document">>]
        ELSE IF input.projectName # "" /\ project = 0
        THEN [called EXCEPT
                 !.error = [kind |-> "Project", name |-> input.projectName],
                 !.requests = asked]
        ELSE IF input.initiativeName # "" /\ initiative = 0
        THEN [called EXCEPT
                 !.error = [kind |-> "Initiative",
                            name |-> input.initiativeName],
                 !.requests = asked \o <<"initiatives">>]
        ELSE [called EXCEPT
                 !.requests = asked
                     \o (IF input.initiativeName # "" THEN <<"initiatives">>
                         ELSE <<>>)
                     \o <<"documentUpdate">>,
                 !.mutation = [NoMutation EXCEPT
                     !.sent = TRUE, !.kind = "documentUpdate",
                     !.targetId = Documents[document].id,
                     !.projectId = IF input.projectName # ""
                                   THEN projects[project].id ELSE 0,
                     !.initiativeId = IF input.initiativeName # ""
                                      THEN initiatives[initiative].id ELSE 0]]

\* excludedTypes of listIssues
ExcludedTypes(includeCompleted, includeBacklog) ==
    (IF ~includeCompleted THEN <<"completed", "canceled">> ELSE <<>>)
    \o (IF ~includeBacklog THEN <<"backlog">> ELSE <<>>)

\* filterObj.state of listIssues: the name constraint, then the excluded
\* types spread over it
StateFilterOverwrite(state, excluded) ==
    IF Len(excluded) > 0
    THEN [NoStateFilter EXCEPT !.present = TRUE, !.hasType = TRUE,
                               !.typeNin = excluded]
    ELSE IF state # ""
    THEN [NoStateFilter EXCEPT !.present = TRUE, !.hasName = TRUE,
                               !.nameEq = state]
    ELSE NoStateFilter

StateFilter(state, excluded) ==
    LET named == IF state # ""
                 THEN [NoStateFilter EXCEPT !.present = TRUE, !.hasName = TRUE,
                                            !.nameEq = state]
                 ELSE NoStateFilter
    IN  IF Len(excluded) > 0
        THEN [named EXCEPT !.present = TRUE, !.hasType = TRUE,
                           !.typeNin = excluded]
        ELSE named

\* issues(filter): the upstream keeps the issues that meet every comparator
\* of the filter
IssuesMatching(teamId, stateFilter) ==
    SelectSeq(Issues, LAMBDA x :
        /\ teamId = 0 \/ x.team = teamId
        /\ stateFilter.hasName => x.stateName = stateFilter.nameEq
        /\ stateFilter.hasType =>
              \A i \in 1 .. Len(stateFilter.typeNin) :
                 x.stateType # stateFilter.typeNin[i])

\* listIssues: the filter is built and sent, the matching issues come back.
\* The assignee, priority, updatedAt and text constraints are further keys of
\* the filter object that do not touch its state key.
listIssues(input) ==
    LET filter == StateFilter(input.state,
                      ExcludedTypes(input.includeCompleted,
                                    input.includeBacklog))
    IN  [IdleDomain EXCEPT !.op = "listIssues", !.input = input,
            !.team = input.teamId, !.filter = filter,
            !.requests = <<"issues">>,
            !.returned = IssuesMatching(input.teamId, filter)]

\* each operation is applied once to the arguments it is given
ListIssues ==
    /\ domain = IdleDomain
    /\ \E teamId \in {0, 1, 2}, state \in StateArgs,
          includeCompleted \in BOOLEAN, includeBacklog \in BOOLEAN :
          domain' = listIssues(
              [NoInput EXCEPT !.teamId = teamId, !.state = state,
                  !.includeCompleted = includeCompleted,
                  !.includeBacklog = includeBacklog])
    /\ UNCHANGED <<now, ticks, tokenVars, queryVars, cacheVars, sessionVars, workspace, cryptoVars, flowVars>>

CreateIssueByName ==
    /\ domain = IdleDomain
    /\ \E teamName \in TeamNames, assigneeName \in AssigneeNames,
          stateName \in StateNames, labelNames \in LabelNameArgs,
          projectName \in ProjectNames :
          domain' = createIssueByName(workspace,
              [NoInput EXCEPT !.teamName = teamName,
                  !.assigneeName = assigneeName, !.stateName = stateName,
                  !.labelNames = labelNames, !.projectName = projectName])
    /\ UNCHANGED <<now, ticks, tokenVars, queryVars, cacheVars, sessionVars, workspace, cryptoVars, flowVars>>

UpdateIssueByName ==
    /\ domain = IdleDomain
    /\ \E identifier \in Identifiers, assigneeName \in AssigneeNames,
          stateName \in StateNames, labelNames \in LabelNameArgs,
          projectName \in ProjectNames :
          domain' = updateIssueByName(workspace,
              [NoInput EXCEPT !.identifier = identifier,
                  !.assigneeName = assigneeName, !.stateName = stateName,
                  !.labelNames = labelNames, !.projectName = projectName])
    /\ UNCHANGED <<now, ticks, tokenVars, queryVars, cacheVars, sessionVars, workspace, cryptoVars, flowVars>>

CreateDocumentByName ==
    /\ domain = IdleDomain
    /\ \E projectName \in ProjectNames \cup {"Nope"} :
          domain' = createDocumentByName(workspace,
              [NoInput EXCEPT !.projectName = projectName])
    /\ UNCHANGED <<now, ticks, tokenVars, queryVars, cacheVars, sessionVars, workspace, cryptoVars, flowVars>>

UpdateDocumentByName ==
    /\ domain = IdleDomain
    /\ \E slugId \in SlugIds, projectName \in ProjectNames,
          initiativeName \in InitiativeNames :
          domain' = updateDocumentByName(workspace,
              [NoInput EXCEPT !.slugId = slugId, !.projectName = projectName,
                  !.initiativeName = initiativeName])
    /\ UNCHANGED <<now, ticks, tokenVars, queryVars, cacheVars, sessionVars, workspace, cryptoVars, flowVars>>

\* ------------------------------------------------ encrypted credential store
\* JSON.stringify(tokens): the members in the order accessToken,
\* refreshToken, expiresAt, each as its name and value; undefined members
\* are left out
stringify(tokens) ==
    <<"accessToken", tokens.accessToken>>
    \o (IF tokens.refreshToken # 0 THEN <<"refreshToken", tokens.refreshToken>>
        ELSE <<>>)
    \o (IF tokens.expiresAt # 0 THEN <<"expiresAt", tokens.expiresAt>>
        ELSE <<>>)

\* the value of member `name` in a JSON text, 0 when it has none
Member(text, name) ==
    LET at == {i \in 1 .. Len(text) : i % 2 = 1 /\ text[i] = name}
    IN  IF at = {} THEN 0 ELSE text[(CHOOSE i \in at : TRUE) + 1]

\* JSON.parse(text): a SyntaxError unless the text is an object's members
parse(text) ==
    IF /\ Len(text) % 2 = 0
       /\ \A i \in 1 .. Len(text) :
             i % 2 = 1 =>
                text[i] \in {"accessToken", "refreshToken", "expiresAt"}
    THEN [ok |-> TRUE,
          value |-> [accessToken |-> Member(text, "accessToken"),
                     refreshToken |-> Member(text, "refreshToken"),
                     expiresAt |-> Member(text, "expiresAt")]]
    ELSE [ok |-> FALSE, value |-> NoTokens]

\* crypto.subtle.digest("SHA-256", encoder.encode(encryptionKey)): distinct
\* keys have distinct digests
digest(encryptionKey) == <<"sha256", encryptionKey>>

\* AES-GCM: every ciphertext unit is bound to the key, the IV and its
\* position, and the tag that ends the ciphertext to the key, the IV and the
\* length
aesGcmEncrypt(key, iv, data) ==
    [i \in 1 .. Len(data) |-> [key |-> key, iv |-> iv, at |-> i, unit |-> data[i]]]
    \o <<[key |-> key, iv |-> iv, tag |-> Len(data)]>>

IsUnit(x, key, iv, i) ==
    /\ DOMAIN x = {"key", "iv", "at", "unit"}
    /\ x.key = key /\ x.iv = iv /\ x.at = i

IsTag(x, key, iv, n) ==
    /\ DOMAIN x = {"key", "iv", "tag"}
    /\ x.key = key /\ x.iv = iv /\ x.tag = n

\* crypto.subtle.decrypt: an OperationError unless the tag and every unit
\* verify under the key and IV
aesGcmDecryptUnchecked(key, iv, ciphertext) ==
    IF Len(ciphertext) = 0 THEN [ok |-> FALSE, data |-> <<>>]
    ELSE [ok |-> TRUE,
          data |-> [i \in 1 .. Len(ciphertext) - 1 |->
                       IF "unit" \in DOMAIN ciphertext[i]
                       THEN ciphertext[i].unit ELSE "?"]]

aesGcmDecrypt(key, iv, ciphertext) ==
    IF /\ Len(ciphertext) >= 1
       /\ IsTag(ciphertext[Len(ciphertext)], key, iv, Len(ciphertext) - 1)
       /\ \A i \in 1 .. Len(ciphertext) - 1 : IsUnit(ciphertext[i], key, iv, i)
    THEN [ok |-> TRUE,
          data |-> [i \in 1 .. Len(ciphertext) - 1 |-> ciphertext[i].unit]]
    ELSE [ok |-> FALSE, data |-> <<>>]

\* btoa(String.fromCharCode(...combined)) and atob: one character per byte
btoa(bytes) == [i \in 1 .. Len(bytes) |-> [base64 |-> bytes[i]]]

atob(text) ==
    IF \A i \in 1 .. Len(text) : DOMAIN text[i] = {"base64"}
    THEN [ok |-> TRUE, bytes |-> [i \in 1 .. Len(text) |-> text[i].base64]]
    ELSE [ok |-> FALSE, bytes |-> <<>>]

\* crypto.getRandomValues(new Uint8Array(12))
RandomIv(seed) == [i \in 1 .. 12 |-> [byte |-> seed]]

\* encrypt(plaintext, encryptionKey): IV followed by ciphertext, as base64
encrypt(plaintext, encryptionKey, iv) ==
    btoa(iv \o aesGcmEncrypt(digest(encryptionKey), iv, plaintext))

\* decrypt(encrypted, encryptionKey): the plaintext, or a throw
decrypt(encrypted, encryptionKey) ==
    LET combined == atob(encrypted) IN
    IF ~combined.ok THEN [ok |-> FALSE, data |-> <<>>]
    ELSE LET n == IF Len(combined.bytes) < 12 THEN Len(combined.bytes)
                  ELSE 12
             iv == SubSeq(combined.bytes, 1, n)
             ciphertext == SubSeq(combined.bytes, n + 1, Len(combined.bytes))
         IN  aesGcmDecrypt(digest(encryptionKey), iv, ciphertext)

\* getLinearTokens on the stored value: null without a userId or a stored
\* value; a failing decrypt or parse is caught and answered with null
Null == [threw |-> FALSE, tokens |-> NoTokens, text |-> <<>>]

getLinearTokensKVNoCatch(userId, encryptedData, encryptionKey) ==
    IF userId = 0 \/ encryptedData = <<>> THEN Null
    ELSE LET decrypted == decrypt(encryptedData, encryptionKey) IN
         IF ~decrypted.ok \/ ~parse(decrypted.data).ok
         THEN [threw |-> TRUE, tokens |-> NoTokens, text |-> <<>>]
         ELSE [threw |-> FALSE, tokens |-> parse(decrypted.data).value,
               text |-> decrypted.data]

getLinearTokensKV(userId, encryptedData, encryptionKey) ==
    IF userId = 0 \/ encryptedData = <<>> THEN Null
    ELSE LET decrypted == decrypt(encryptedData, encryptionKey) IN
         IF ~decrypted.ok THEN Null
         ELSE IF ~parse(decrypted.data).ok THEN Null
         ELSE [threw |-> FALSE, tokens |-> parse(decrypted.data).value,
               text |-> decrypted.data]

IdleCrypt ==
    [op |-> "none", written |-> NoTokens, writtenText |-> <<>>,
     writtenKey |-> "", state |-> "empty", readKey |-> "", read |-> Null,
     error |-> "none"]

\* setLinearTokens: the set is serialised, encrypted under the configured
\* key with a fresh IV, and put
SetLinearTokens ==
    /\ \E tokens \in StoredSets, seed \in IvSeeds :
          /\ kvBlob' = encrypt(stringify(tokens), envKey, RandomIv(seed))
          /\ crypt' = [IdleCrypt EXCEPT
                 !.op = "set", !.written = tokens,
                 !.writtenText = stringify(tokens), !.writtenKey = envKey,
                 !.state = "intact"]
    /\ UNCHANGED <<now, ticks, tokenVars, queryVars, cacheVars, sessionVars, domainVars, envKey, flowVars>>

\* the stored value is damaged: cut short, one character replaced, or
\* replaced by a value that decrypts to something that is not the JSON of a
\* credential set
Corrupt ==
    /\ crypt.state = "intact"
    /\ \/ \E n \in {1, 12, Len(kvBlob) - 1} :
             kvBlob' = SubSeq(kvBlob, 1, n)
       \/ \E i \in {1, 12 + 1, Len(kvBlob)} :
             kvBlob' = [kvBlob EXCEPT ![i] = [garbled |-> i]]
       \/ \E i \in {12 + 1, Len(kvBlob)} :
             kvBlob' = [kvBlob EXCEPT ![i] = [base64 |-> [garbled |-> i]]]
       \/ kvBlob' = encrypt(<<"accessToken">>, envKey, RandomIv(1))
    /\ crypt' = [crypt EXCEPT !.op = "corrupt", !.state = "damaged",
                              !.read = Null, !.readKey = "",
                              !.error = "none"]
    /\ UNCHANGED <<now, ticks, tokenVars, queryVars, cacheVars, sessionVars, domainVars, envKey, flowVars>>

\* COOKIE_ENCRYPTION_KEY is replaced by another key
RotateKey ==
    /\ \E k \in EncryptionKeys : k # envKey /\ envKey' = k
    /\ crypt' = [crypt EXCEPT !.op = "rotate", !.read = Null, !.readKey = "",
                              !.error = "none"]
    /\ UNCHANGED <<now, ticks, tokenVars, queryVars, cacheVars, sessionVars, domainVars, kvBlob, flowVars>>

\* getLinearTokens is called for an identity
GetLinearTokens ==
    /\ crypt' = [crypt EXCEPT
           !.op = "getLinearTokens", !.readKey = envKey,
           !.read = getLinearTokensKV(1, kvBlob, envKey),
           !.error = "none"]
    /\ UNCHANGED <<now, ticks, tokenVars, queryVars, cacheVars, sessionVars, domainVars, envKey, kvBlob, flowVars>>

\* getApiKey up to its test of tokens?.accessToken: without an access
\* credential it throws before anything is sent
GetApiKeyRead ==
    /\ LET read == getLinearTokensKV(1, kvBlob, envKey) IN
       crypt' = [crypt EXCEPT
           !.op = "getApiKey", !.readKey = envKey, !.read = read,
           !.error = IF read.threw THEN "Uncaught"
                     ELSE IF read.tokens.accessToken = 0 THEN "NoAccessToken"
                     ELSE "none"]
    /\ UNCHANGED <<now, ticks, tokenVars, queryVars, cacheVars, sessionVars, domainVars, envKey, kvBlob, flowVars>>

\* ------------------------------------------- createIssueByName, step by step
\* the lookups resolveNamesToIds hands to Promise.all
Needed(input) ==
    (IF input.assigneeName # "" THEN {"users"} ELSE {})
    \cup (IF input.stateName # "" THEN {"states"} ELSE {})
    \cup (IF input.labelNames.given THEN {"teamLabels", "workspaceLabels"}
          ELSE {})
    \cup (IF input.projectName # "" THEN {"projects"} ELSE {})

\* `await Promise.all([...])` resumes once every lookup has answered
PromiseAny(answered, needed) == answered # {} \/ needed = {}

PromiseAll(answered, needed) == answered = needed

IdleCreation ==
    [pc |-> "idle", input |-> NoInput, teamsAnswered |-> FALSE, team |-> 0,
     issued |-> {}, inflight |-> {}, answered |-> {}, error |-> NoError,
     mutation |-> NoMutation]

\* createIssueByName is called: listTeams is requested
CreateIssueStart ==
    /\ creation.pc = "idle"
    /\ \E teamName \in TeamNames, assigneeName \in AssigneeNames,
          stateName \in StateNames, labelNames \in CreateLabelArgs,
          projectName \in ProjectNames :
          creation' = [IdleCreation EXCEPT
              !.pc = "teams",
              !.input = [NoInput EXCEPT
                  !.teamName = teamName, !.assigneeName = assigneeName,
                  !.stateName = stateName, !.labelNames = labelNames,
                  !.projectName = projectName]]
    /\ UNCHANGED <<now, ticks, tokenVars, queryVars, cacheVars, sessionVars, domainVars, cryptoVars, connectVars>>

\* listTeams answers: without a matching team createIssueByName throws,
\* otherwise resolveNamesToIds starts every lookup it needs; a failed query
\* throws
TeamsAnswer ==
    /\ creation.pc = "teams"
    /\ \/ LET teams == listTeams(workspace)
              team == Find(teams, creation.input.teamName)
          IN  IF team = 0
              THEN creation' = [creation EXCEPT
                       !.pc = "failed", !.teamsAnswered = TRUE,
                       !.error = [kind |-> "Team",
                                  name |-> creation.input.teamName]]
              ELSE creation' = [creation EXCEPT
                       !.pc = "resolve", !.teamsAnswered = TRUE,
                       !.team = teams[team].id,
                       !.issued = Needed(creation.input),
                       !.inflight = Needed(creation.input)]
       \/ creation' = [creation EXCEPT
              !.pc = "failed",
              !.error = [kind |-> "LinearApiError", name |-> "teams"]]
    /\ UNCHANGED <<now, ticks, tokenVars, queryVars, cacheVars, sessionVars, domainVars, cryptoVars, connectVars>>

\* one of the lookups answers; a failed one rejects Promise.all at once,
\* while the others stay in flight
LookupAnswer(l) ==
    /\ l \in creation.inflight
    /\ \/ creation' = [creation EXCEPT
              !.inflight = creation.inflight \ {l},
              !.answered = creation.answered \cup {l}]
       \/ creation' = [creation EXCEPT
              !.inflight = creation.inflight \ {l},
              !.pc = IF creation.pc = "resolve" THEN "failed" ELSE creation.pc,
              !.error = IF creation.pc = "resolve"
                        THEN [kind |-> "LinearApiError", name |-> l]
                        ELSE creation.error]
    /\ UNCHANGED <<now, ticks, tokenVars, queryVars, cacheVars, sessionVars, domainVars, cryptoVars, connectVars>>

\* Promise.all has resolved: the names are resolved against the lists; the
\* first name without a match throws, otherwise issueCreate is sent
ResolveNames ==
    /\ creation.pc = "resolve"
    /\ PromiseAll(creation.answered, Needed(creation.input))
    /\ LET teams == listTeams(workspace)
           team == Find(teams, creation.input.teamName)
           r == resolveNamesToIds(workspace, teams[team].id, teams[team].name,
                                  creation.input)
       IN  IF r.error # NoError
           THEN creation' = [creation EXCEPT !.pc = "failed",
                                             !.error = r.error]
           ELSE creation' = [creation EXCEPT
                    !.pc = "create",
                    !.mutation = IssueMutation("issueCreate", teams[team].id,
                                               0, r.resolved)]
    /\ UNCHANGED <<now, ticks, tokenVars, queryVars, cacheVars, sessionVars, domainVars, cryptoVars, connectVars>>

\* issueCreate answers
MutationAnswer ==
    /\ creation.pc = "create"
    /\ \/ creation' = [creation EXCEPT !.pc = "done"]
       \/ creation' = [creation EXCEPT
              !.pc = "failed",
              !.error = [kind |-> "LinearApiError", name |-> "issueCreate"]]
    /\ UNCHANGED <<now, ticks, tokenVars, queryVars, cacheVars, sessionVars, domainVars, cryptoVars, connectVars>>

\* ------------------------------------------------ onConnect and issue_create
MCP_NO_OAUTH_PATH == "/mcp-no-oauth"

\* `apikey-` followed by the first 16 hex digits of the SHA-256 of the key:
\* distinct keys give distinct identities, none of them an OAuth user's
ApiKeyUserId(apiKey) == 10 + apiKey

StaticIdentities == {ApiKeyUserId(h.body) : h \in {x \in AuthHeaders : x.body # 0}}

\* props.name: the viewer's name for an OAuth user, "API Key User" for the
\* identity onConnect derives from a static key
PropsName(userId) ==
    IF userId = 1 THEN "Ann"
    ELSE IF userId = 2 THEN "Bob"
    ELSE IF userId \in StaticIdentities THEN "API Key User"
    ELSE ""

\* `!mcpSecret || mcpSecret !== this.env.MCP_API_KEY_SECRET` does not throw
SecretAcceptedIfPresent(mcpSecret, envSecret) == mcpSecret # ""

SecretAccepted(mcpSecret, envSecret) ==
    mcpSecret # "" /\ mcpSecret = envSecret

IdleConn ==
    [pc |-> "idle", path |-> "", authHeader |-> [prefix |-> "", body |-> 0],
     mcpSecret |-> "", envSecret |-> "", apiKey |-> 0, userId |-> 0,
     error |-> "none"]

NoIssueCreate ==
    [called |-> FALSE, assigneeName |-> "", actingAs |-> 0, thrown |-> "none",
     call |-> IdleDomain]

\* onConnect up to its first await: on the static-key path with an
\* Authorization header the secret is checked, the key is taken from the
\* header and the identity derived; otherwise the parent implementation runs
OnConnect ==
    /\ conn.pc \in {"idle", "connected", "failed"}
    /\ \E path \in Paths, authHeader \in AuthHeaders, mcpSecret \in McpSecrets :
          LET c == [IdleConn EXCEPT !.path = path, !.authHeader = authHeader,
                                    !.mcpSecret = mcpSecret,
                                    !.envSecret = conn.envSecret]
          IN  IF path = MCP_NO_OAUTH_PATH /\ authHeader.body # 0
              THEN IF conn.envSecret = ""
                   THEN conn' = [c EXCEPT !.pc = "failed",
                                          !.error = "NotConfigured"]
                   ELSE IF ~SecretAccepted(mcpSecret, conn.envSecret)
                   THEN conn' = [c EXCEPT !.pc = "failed",
                                          !.error = "Unauthorized"]
                   ELSE conn' = [c EXCEPT
                            !.pc = "props", !.apiKey = authHeader.body,
                            !.userId = ApiKeyUserId(authHeader.body)]
              ELSE conn' = [c EXCEPT !.pc = "connected"]
    /\ UNCHANGED <<now, ticks, tokenVars, queryVars, cacheVars, sessionVars, domainVars, cryptoVars, createVars, tokenStore, issueCreate>>

\* updateProps resolves or throws
OnConnectProps ==
    /\ conn.pc = "props"
    /\ \/ /\ props' = conn.userId
          /\ conn' = [conn EXCEPT !.pc = "tokens"]
       \/ /\ conn' = [conn EXCEPT !.pc = "failed", !.error = "UpdatePropsFailed"]
          /\ UNCHANGED props
    /\ UNCHANGED <<now, ticks, tokenVars, queryVars, cacheVars, currentUserId, handlers, toolCalls, domainVars, cryptoVars, createVars, tokenStore, issueCreate>>

\* setLinearTokens of the key with an expiry one year ahead resolves or
\* throws; then the parent implementation runs
OnConnectTokens ==
    /\ conn.pc = "tokens"
    /\ \/ /\ tokenStore' = [tokenStore EXCEPT ![props] =
                 [accessToken |-> conn.apiKey, refreshToken |-> 0,
                  expiresAt |-> now + oneYear]]
          /\ conn' = [conn EXCEPT !.pc = "connected"]
       \/ /\ conn' = [conn EXCEPT !.pc = "failed", !.error = "PutFailed"]
          /\ UNCHANGED tokenStore
    /\ UNCHANGED <<now, ticks, tokenVars, queryVars, cacheVars, sessionVars, domainVars, cryptoVars, createVars, issueCreate>>

\* the issue_create handler: getApiKey, then createIssueByName with
\* `assigneeName || this.props?.name`; an exception is caught
IssueCreate ==
    /\ conn.pc \in {"idle", "connected", "failed"}
    /\ \E teamName \in TeamNames, assigneeName \in AssigneeNames,
          projectName \in ProjectNames :
          LET called == [NoIssueCreate EXCEPT
                            !.called = TRUE, !.assigneeName = assigneeName,
                            !.actingAs = props]
              name == IF assigneeName # "" THEN assigneeName
                      ELSE PropsName(props)
          IN  IF props = 0
              THEN issueCreate' = [called EXCEPT !.thrown = "AuthRequired"]
              ELSE IF tokenStore[props].accessToken = 0
              THEN issueCreate' = [called EXCEPT !.thrown = "NoAccessToken"]
              ELSE LET call == createIssueByName(workspace,
                                  [NoInput EXCEPT
                                      !.teamName = teamName,
                                      !.assigneeName = name,
                                      !.projectName = projectName])
                   IN  issueCreate' = [called EXCEPT
                           !.call = call,
                           !.thrown = IF call.error # NoError
                                      THEN "NotFound" ELSE "none"]
    /\ UNCHANGED <<now, ticks, tokenVars, queryVars, cacheVars, sessionVars, domainVars, cryptoVars, createVars, conn, tokenStore>>

\* ---------------------------------------------------------- specifications
TokenIdle ==
    /\ kv = NoTokens
    /\ refreshPromise = 0
    /\ promises = <<>>
    /\ callers = [c \in Callers |-> IdleCaller]
    /\ tokenRequests = 0
    /\ calls = 0

QueryIdle ==
    /\ queries = [q \in QueryCallers |-> IdleQuery]
    /\ upstreamRequests = 0

CacheIdle ==
    /\ cache = [k \in Keys |-> NoEntry]
    /\ getters = [g \in Getters |-> IdleGetter]
    /\ fetcherCalls = 0

SessionIdle ==
    /\ props = 0
    /\ currentUserId = 0
    /\ handlers = [h \in Handlers |-> IdleHandler]
    /\ toolCalls = 0

DomainIdle ==
    /\ workspace = [labels |-> Labels]
    /\ domain = IdleDomain

CryptoIdle ==
    /\ envKey = "key-a"
    /\ kvBlob = <<>>
    /\ crypt = IdleCrypt

ConnectIdle ==
    /\ conn = IdleConn
    /\ tokenStore = [u \in Identities \cup StaticIdentities |-> NoTokens]
    /\ issueCreate = NoIssueCreate

FlowIdle ==
    /\ creation = IdleCreation
    /\ ConnectIdle

ToolsIdle == SessionIdle /\ DomainIdle /\ CryptoIdle /\ FlowIdle

Init ==
    now = T0 /\ ticks = 0 /\ TokenInit /\ QueryIdle /\ CacheIdle /\ ToolsIdle

Spec == Init /\ [][Next]_vars

QueryNext ==
    \/ \E q \in QueryCallers : ExecuteQueryStart(q)
    \/ \E q \in QueryCallers : ExecuteQueryResponse(q)

QueryInit ==
    now = T0 /\ ticks = 0 /\ TokenIdle /\ QueryIdle /\ CacheIdle /\ ToolsIdle

SpecQuery == QueryInit /\ [][QueryNext]_vars

CacheNext ==
    \/ CacheTick
    \/ \E g \in Getters : GetOrFetch(g)
    \/ \E g \in Getters : FetcherResolves(g)
    \/ \E g \in Getters : FetcherFails(g)
    \/ CacheClear
    \/ CacheCleanup

CacheInit ==
    now = T0 /\ ticks = 0 /\ TokenIdle /\ QueryIdle /\ CacheIdle /\ ToolsIdle

SpecCache == CacheInit /\ [][CacheNext]_vars

SessionNext ==
    \/ SessionTick
    \/ \E h \in Handlers : ToolCall(h)
    \/ \E h \in Handlers : AuthResolves(h)
    \/ \E h \in Handlers : FetchResolves(h)
    \/ \E h \in Handlers : OpResolves(h)
    \/ \E u \in Identities : UpdateProps(u)

SessionInit ==
    /\ now = T0
    /\ ticks = 0
    /\ TokenIdle
    /\ QueryIdle
    /\ cache = [k \in SessionKeys |-> NoEntry]
    /\ getters = [g \in Getters |-> IdleGetter]
    /\ fetcherCalls = 0
    /\ props \in {0} \cup Identities
    /\ currentUserId = 0
    /\ handlers = [h \in Handlers |-> IdleHandler]
    /\ toolCalls = 0
    /\ DomainIdle
    /\ CryptoIdle
    /\ FlowIdle

SpecSession == SessionInit /\ [][SessionNext]_vars

DomainNext ==
    \/ ListIssues
    \/ CreateIssueByName
    \/ UpdateIssueByName
    \/ CreateDocumentByName
    \/ UpdateDocumentByName

\* any subset of the labels exists upstream
DomainInit ==
    /\ now = T0
    /\ ticks = 0
    /\ TokenIdle
    /\ QueryIdle
    /\ CacheIdle
    /\ SessionIdle
    /\ \E present \in SUBSET {11, 12, 13, 14} :
          workspace = [labels |-> SelectSeq(Labels, LAMBDA x : x.id \in present)]
    /\ domain = IdleDomain
    /\ CryptoIdle
    /\ FlowIdle

SpecDomain == DomainInit /\ [][DomainNext]_vars

CryptoNext ==
    \/ SetLinearTokens
    \/ Corrupt
    \/ RotateKey
    \/ GetLinearTokens
    \/ GetApiKeyRead

CryptoInit ==
    /\ now = T0
    /\ ticks = 0
    /\ TokenIdle
    /\ QueryIdle
    /\ CacheIdle
    /\ SessionIdle
    /\ DomainIdle
    /\ envKey \in EncryptionKeys
    /\ kvBlob = <<>>
    /\ crypt = IdleCrypt
    /\ FlowIdle

SpecCrypto == CryptoInit /\ [][CryptoNext]_vars

CreateNext ==
    \/ CreateIssueStart
    \/ TeamsAnswer
    \/ \E l \in {"users", "states", "teamLabels", "workspaceLabels",
                  "projects"} : LookupAnswer(l)
    \/ ResolveNames
    \/ MutationAnswer

CreateInit ==
    /\ now = T0
    /\ ticks = 0
    /\ TokenIdle
    /\ QueryIdle
    /\ CacheIdle
    /\ SessionIdle
    /\ DomainIdle
    /\ CryptoIdle
    /\ creation = IdleCreation
    /\ ConnectIdle

SpecCreate == CreateInit /\ [][CreateNext]_vars

ConnectNext ==
    \/ OnConnect
    \/ OnConnectProps
    \/ OnConnectTokens
    \/ IssueCreate

\* an OAuth user's credential set was stored when the user authorized
ConnectInit ==
    /\ now = T0
    /\ ticks = 0
    /\ TokenIdle
    /\ QueryIdle
    /\ CacheIdle
    /\ props \in {0} \cup Identities
    /\ currentUserId = 0
    /\ handlers = [h \in Handlers |-> IdleHandler]
    /\ toolCalls = 0
    /\ DomainIdle
    /\ CryptoIdle
    /\ creation = IdleCreation
    /\ \E e \in EnvSecrets : conn = [IdleConn EXCEPT !.envSecret = e]
    /\ tokenStore = [u \in Identities \cup StaticIdentities |->
                  IF u \in Identities
                  THEN [accessToken |-> 100 + u, refreshToken |-> 200 + u,
                        expiresAt |-> now + defaultLifetime]
                  ELSE NoTokens]
    /\ issueCreate = NoIssueCreate

SpecConnect == ConnectInit /\ [][ConnectNext]_vars

PromiseIds == 1 .. Len(promises)

\* the call of caller c has passed getApiKey's expiry check
PastCheck(c) ==
    /\ callers[c].op = "getApiKey"
    /\ callers[c].pc \in {"ga_await", "ga_put", "ga_reread", "done", "failed"}
    /\ callers[c].tokens.accessToken # 0

Awaiting(c) == callers[c].pc \in {"ga_await", "rg_await"}

\* C1: while a refresh is in flight, no second performRefresh runs and no
\* second token request is out: the only unsettled refresh is the one in the
\* slot, and every caller waiting in refreshAccessToken for an unsettled
\* refresh waits for that one.
C1_SingleFlight ==
    /\ Cardinality({p \in PromiseIds : ~Settled(p)}) <= 1
    /\ \A p \in PromiseIds : ~Settled(p) => refreshPromise = p
    /\ \A c \in Callers :
          (Awaiting(c) /\ ~Settled(callers[c].awaiting))
             => callers[c].awaiting = refreshPromise

C1_Witness ==
    /\ \A c \in Callers : Awaiting(c) /\ callers[c].awaiting = 1
    /\ Len(promises) = 1
    /\ promises[1].pc = "pr_fetch"
    /\ tokenRequests = 1

\* C2: a getApiKey call that finds the stored expiry strictly more than five
\* minutes after the current time returns the stored access credential,
\* never enters refreshAccessToken and writes nothing to the store.
C2_ValidNoRefresh ==
    \A c \in Callers :
       (PastCheck(c)
        /\ callers[c].tokens.expiresAt - callers[c].checkedAt > fiveMinutes)
          => /\ callers[c].pc = "done"
             /\ callers[c].result = callers[c].tokens.accessToken
             /\ callers[c].refreshCalls = 0
             /\ ~callers[c].wrote

C2_Witness ==
    \E c \in Callers :
       /\ PastCheck(c)
       /\ callers[c].pc = "done"
       /\ callers[c].tokens.refreshToken # 0
       /\ callers[c].tokens.expiresAt - callers[c].checkedAt = fiveMinutes + 1

\* the call of caller c found a refresh credential and an expiry that is
\* within five minutes of the current time or past, and has returned
ReturnedAfterRefresh(c) ==
    /\ PastCheck(c)
    /\ callers[c].pc = "done"
    /\ callers[c].tokens.refreshToken # 0
    /\ callers[c].tokens.expiresAt # 0
    /\ callers[c].tokens.expiresAt - callers[c].checkedAt <= fiveMinutes

\* C3 as stated: such a call makes exactly one refresh call and returns the
\* access credential persisted by the refresh it awaited, never the one it
\* read before.
C3_Original ==
    \A c \in Callers :
       ReturnedAfterRefresh(c)
          => /\ callers[c].refreshCalls = 1
             /\ callers[c].result = promises[callers[c].awaiting].persisted
             /\ callers[c].result # callers[c].tokens.accessToken

\* C3 amended: such a call makes exactly one refresh call and returns an
\* access credential persisted by the refresh it awaited or by a later
\* refresh, never one that is older than the awaited refresh's.
C3_RefreshedCredential ==
    \A c \in Callers :
       ReturnedAfterRefresh(c)
          => /\ callers[c].refreshCalls = 1
             /\ \E p \in callers[c].awaiting .. Len(promises) :
                   /\ promises[p].pc \in {"pr_done", "fulfilled"}
                   /\ callers[c].result = promises[p].persisted

C3_Witness ==
    \E c \in Callers :
       /\ ReturnedAfterRefresh(c)
       /\ callers[c].initiator
       /\ callers[c].result = promises[callers[c].awaiting].persisted
       /\ callers[c].result # callers[c].tokens.accessToken

\* C4: a getApiKey call that finds no refresh credential and an expiry in
\* the past fails with the re-authentication error and never enters the
\* refresh path, so it sends nothing to the token endpoint.
C4_ExpiredNoRefreshToken ==
    \A c \in Callers :
       (PastCheck(c)
        /\ callers[c].tokens.refreshToken = 0
        /\ callers[c].tokens.expiresAt # 0
        /\ callers[c].tokens.expiresAt < callers[c].checkedAt)
          => /\ callers[c].pc = "failed"
             /\ callers[c].error = "ExpiredNoRefreshToken"
             /\ callers[c].refreshCalls = 0
             /\ tokenRequests = 0

C4_Witness ==
    \E c \in Callers :
       /\ PastCheck(c)
       /\ callers[c].tokens.refreshToken = 0
       /\ callers[c].tokens.expiresAt # 0
       /\ callers[c].tokens.expiresAt < callers[c].checkedAt
       /\ callers[c].error = "ExpiredNoRefreshToken"
\* a step in which performRefresh p ends by throwing
RefreshFails(p) == ~Settled(p) /\ promises'[p].pc = "rejected"

\* a step in which performRefresh p persists its result
RefreshPersists(p) == promises[p].pc = "pr_put" /\ promises'[p].pc = "pr_done"

\* C5: a refresh that fails at any step leaves the store holding the set it
\* held when the refresh began; a refresh that succeeds writes the store
\* once, and that write carries the endpoint's access credential, a refresh
\* credential and a fresh expiry together; nothing else changes the store
\* while a refresh is running.
C5_WholeSetOrNothing ==
    [][/\ \A p \in PromiseIds :
            /\ RefreshFails(p) => kv' = promises[p].before
            /\ RefreshPersists(p) =>
                  /\ promises[p].before = kv
                  /\ kv'.accessToken = promises[p].resp.access_token
                  /\ kv'.accessToken # kv.accessToken
                  /\ kv'.refreshToken # 0
                  /\ kv'.expiresAt > promises[p].at
       /\ (kv' # kv /\ \E p \in PromiseIds : ~Settled(p)) =>
            \E p \in PromiseIds : RefreshPersists(p)]_vars

C5_Witness ==
    /\ \E p \in PromiseIds :
          /\ promises[p].pc = "rejected"
          /\ promises[p].error = "ReauthRequired"
    /\ \E p \in PromiseIds :
          /\ promises[p].pc = "pr_done"
          /\ promises[p].before.expiresAt < promises[p].at
          /\ promises[p].before # kv
          /\ kv = promises[p].updated

\* the call of caller c found an access credential without a refresh
\* credential
NoRefreshCredential(c) ==
    PastCheck(c) /\ callers[c].tokens.refreshToken = 0

\* C6 as stated: a credential set without a refresh credential is never
\* rejected because of its expiry, whatever expiry it records.
C6_Original ==
    \A c \in Callers :
       NoRefreshCredential(c) => callers[c].error # "ExpiredNoRefreshToken"

\* C6 amended: a credential set without a refresh credential and without a
\* recorded expiry is never rejected because of expiry: getApiKey stamps it
\* with an expiry one year ahead and returns its access credential.  A
\* recorded expiry that is within five minutes or past is enforced.
C6_NoExpiryIsFarFuture ==
    \A c \in Callers :
       /\ (NoRefreshCredential(c) /\ callers[c].tokens.expiresAt = 0)
             => /\ callers[c].error \in {"none", "PutFailed"}
                /\ callers[c].refreshCalls = 0
                /\ callers[c].pending.accessToken = callers[c].tokens.accessToken
                /\ callers[c].pending.expiresAt >= callers[c].checkedAt + oneYear
                /\ callers[c].pc = "done" =>
                      /\ callers[c].result = callers[c].tokens.accessToken
                      /\ callers[c].wrote
       /\ (NoRefreshCredential(c) /\ callers[c].tokens.expiresAt # 0
           /\ callers[c].tokens.expiresAt - callers[c].checkedAt <= fiveMinutes)
             => callers[c].error = "ExpiredNoRefreshToken"

C6_Witness ==
    \E c \in Callers :
       /\ NoRefreshCredential(c)
       /\ callers[c].tokens.expiresAt = 0
       /\ callers[c].pc = "done"
       /\ kv.expiresAt = callers[c].checkedAt + oneYear
\* the logical call of q has ended
Finished(q) == queries[q].pc \in {"done", "failed"}

\* C7: a logical call whose first attempt is answered 401 invokes the
\* refresh callback once, when one is supplied, and makes a second attempt;
\* without a callback the failure propagates after the one attempt.
C7_RetryOn401 ==
    \A q \in QueryCallers :
       (Finished(q) /\ queries[q].firstStatus = 401)
          => IF queries[q].hasCallback
             THEN queries[q].callbackCalls = 1 /\ queries[q].attempts = 2
             ELSE queries[q].callbackCalls = 0 /\ queries[q].pc = "failed"

\* C8: a logical call whose first attempt is answered 429 waits and makes at
\* least one more attempt before it ends.
C8_RetryOn429 ==
    \A q \in QueryCallers :
       (Finished(q) /\ queries[q].firstStatus = 429)
          => queries[q].attempts >= 2

\* the call of g has passed getOrFetch's validity check
Checked(g) == getters[g].pc \in {"fetching", "done", "failed"}

\* C9: getOrFetch never answers from an entry whose expiry the current time
\* has passed: it invokes the fetcher and returns the fetcher's payload, not
\* the entry's.
C9_NoExpiredEntry ==
    \A g \in Getters :
       (Checked(g) /\ getters[g].seen.present
        /\ getters[g].checkedAt > getters[g].seen.expiresAt)
          => /\ getters[g].source = "fetch"
             /\ getters[g].call > getters[g].seen.data
             /\ getters[g].pc = "done" =>
                   /\ getters[g].result = getters[g].call
                   /\ getters[g].result # getters[g].seen.data

C9_Witness ==
    \E g \in Getters :
       /\ getters[g].pc = "done"
       /\ getters[g].seen.present
       /\ getters[g].checkedAt > getters[g].seen.expiresAt
       /\ getters[g].result # getters[g].seen.data

\* the TTL window of a stored entry: from the store to ttl later, five
\* minutes when no ttl was given
InWindow(entry, t) ==
    t < entry.storedAt + (IF entry.ttl = NoTtl THEN 300 ELSE entry.ttl)

\* C10: a getOrFetch call made inside the TTL window of the entry stored for
\* its key invokes no fetcher and returns the payload that the storing call
\* returned; a call made when the window has elapsed invokes the fetcher
\* again.
C10_CacheIdempotence ==
    /\ \A g \in Getters :
          (Checked(g) /\ getters[g].seen.present)
             => IF InWindow(getters[g].seen, getters[g].checkedAt)
                THEN /\ getters[g].pc = "done"
                     /\ getters[g].source = "cache"
                     /\ getters[g].call = 0
                     /\ getters[g].result = getters[g].seen.data
                ELSE /\ getters[g].source = "fetch"
                     /\ getters[g].call > getters[g].seen.data
    /\ \A g \in Getters :
          (getters[g].pc = "done" /\ getters[g].source = "fetch"
           /\ cache[getters[g].key].data = getters[g].call)
             => /\ cache[getters[g].key].data = getters[g].result
                /\ cache[getters[g].key].present

C10_Witness ==
    \E g, h \in Getters :
       /\ getters[g].pc = "done" /\ getters[h].pc = "done"
       /\ getters[g].key = getters[h].key
       /\ getters[g].source = "fetch"
       /\ getters[h].source = "cache"
       /\ getters[h].checkedAt > getters[h].seen.storedAt
       /\ getters[h].result = getters[g].result
       /\ cache[getters[g].key].data = getters[g].result
       /\ fetcherCalls = 1

\* callers c and d read the same stored credential set, found a refresh
\* credential in it and both went on into refreshAccessToken
ReadSameSet(c, d) ==
    /\ c # d
    /\ callers[c].tokens = callers[d].tokens
    /\ callers[c].tokens.refreshToken # 0
    /\ callers[c].refreshCalls = 1
    /\ callers[d].refreshCalls = 1

\* C19: when two concurrent calls read the same credential set and the
\* refresh started by the first has obtained its answer from the token
\* endpoint, the call that reaches the refresh path later sends no second
\* request to the token endpoint.
C19_OneExchange ==
    \A c, d \in Callers :
       (/\ ReadSameSet(c, d)
        /\ Len(promises) >= 1
        /\ promises[1].pc \in {"pr_put", "pr_done", "fulfilled"})
          => tokenRequests <= 1

\* C20: the slot never holds a refresh that has settled, whatever the
\* outcome and however many callers awaited it, and a refresh that has not
\* settled is always the one in the slot.
C20_SlotCleared ==
    /\ refreshPromise # 0 =>
          refreshPromise \in PromiseIds /\ ~Settled(refreshPromise)
    /\ \A p \in PromiseIds : ~Settled(p) => refreshPromise = p
    /\ (\A p \in PromiseIds : Settled(p)) => refreshPromise = 0

C20_Witness ==
    /\ refreshPromise = 0
    /\ Len(promises) = 1
    /\ promises[1].pc = "rejected"
    /\ \A c \in Callers :
          /\ callers[c].awaiting = 1
          /\ callers[c].pc = "failed"
          /\ callers[c].error = promises[1].error
    /\ \E c \in Callers : ~callers[c].initiator

\* C11: no tool call is answered from a cache entry that was populated under
\* an identity other than the one acting when the call looks the name up.
C11_NoStaleIdentity ==
    \A h \in Handlers :
       handlers[h].source = "cache"
          => handlers[h].owner = handlers[h].actingAs

\* C13: every tool call that has ended ended with a payload: the error
\* payload, carrying the failure flag and the message of the exception, when
\* authentication, name resolution or the domain operation threw, and a
\* content payload without the flag otherwise.
C13_ErrorsBecomePayloads ==
    \A h \in Handlers :
       /\ handlers[h].pc \in {"idle", "auth", "fetching", "op", "done"}
       /\ handlers[h].pc = "done" =>
             IF handlers[h].thrown # "none"
             THEN /\ handlers[h].result.isError
                  /\ handlers[h].result.text = <<"Error: ", handlers[h].thrown>>
             ELSE /\ ~handlers[h].result.isError
                  /\ handlers[h].result.text = <<"content">>
       /\ handlers[h].pc # "done" => handlers[h].thrown = "none"

C13_Witness ==
    /\ handlers[1].pc = "done"
    /\ handlers[1].thrown \in TokenErrors
    /\ handlers[1].result.isError
    /\ handlers[2].pc = "done"
    /\ handlers[2].thrown = "NotFound"
    /\ handlers[2].result.isError

Range(list) == {list[i] : i \in 1 .. Len(list)}

NamesOf(list) == {x.name : x \in Range(list)}

IdsNamed(list, name) == {x.id : x \in {y \in Range(list) : y.name = name}}

ByNameOps ==
    {"createIssueByName", "updateIssueByName", "createDocumentByName",
     "updateDocumentByName"}

\* the reference lists that call d fetched for its label names
LabelsFetched(d) ==
    listLabels(workspace, d.team) \o listLabels(workspace, 0)

\* the names supplied to call d whose reference list was fetched, each with
\* its kind and that list
Supplied(d) ==
    (IF d.op = "createIssueByName"
     THEN {[kind |-> "Team", name |-> d.input.teamName, list |-> Teams]}
     ELSE {})
    \cup (IF "users" \in Range(d.requests)
          THEN {[kind |-> "User", name |-> d.input.assigneeName,
                 list |-> Users]}
          ELSE {})
    \cup (IF "states" \in Range(d.requests)
          THEN {[kind |-> "State", name |-> d.input.stateName,
                 list |-> listStates(workspace, d.team)]}
          ELSE {})
    \cup (IF "teamLabels" \in Range(d.requests)
          THEN {[kind |-> "Label", name |-> n, list |-> LabelsFetched(d)] :
                   n \in Range(d.input.labelNames.items)}
          ELSE {})
    \cup (IF "projects" \in Range(d.requests)
          THEN {[kind |-> "Project", name |-> d.input.projectName,
                 list |-> listProjects(workspace, d.team)]}
          ELSE {})
    \cup (IF "initiatives" \in Range(d.requests)
          THEN {[kind |-> "Initiative", name |-> d.input.initiativeName,
                 list |-> Initiatives]}
          ELSE {})

Missing(d) == {x \in Supplied(d) : x.name \notin NamesOf(x.list)}

\* the id the mutation of call d carries for a supplied name of that kind
IdsUsed(d, x) ==
    IF x.kind = "Team" THEN {d.mutation.teamId}
    ELSE IF x.kind = "User" THEN {d.mutation.assigneeId}
    ELSE IF x.kind = "State" THEN {d.mutation.stateId}
    ELSE IF x.kind = "Project" THEN {d.mutation.projectId}
    ELSE IF x.kind = "Initiative" THEN {d.mutation.initiativeId}
    ELSE {d.mutation.labelIds.items[i] :
             i \in {j \in 1 .. Len(d.input.labelNames.items) :
                       d.input.labelNames.items[j] = x.name}}

\* C12: a by-name operation given a name that has no exact match in the
\* list fetched for it fails with the not-found error of that kind naming
\* that name, and sends no create or update mutation; when every name
\* matches, the mutation carries for each name the id of a record of that
\* name.
C12_NotFoundOrResolved ==
    domain.op \in ByNameOps =>
       IF Missing(domain) # {}
       THEN /\ domain.error \in
                  {[kind |-> x.kind, name |-> x.name] : x \in Missing(domain)}
            /\ ~domain.mutation.sent
            /\ domain.requests[Len(domain.requests)] \notin
                  {"issueCreate", "issueUpdate", "documentCreate",
                   "documentUpdate"}
       ELSE /\ domain.error.kind \in
                  {"none", "LinearApiError", "Document", "TeamForIdentifier"}
            /\ domain.error = NoError =>
                  /\ domain.mutation.sent
                  /\ \A x \in Supplied(domain) :
                        /\ IdsUsed(domain, x) # {}
                        /\ IdsUsed(domain, x) \subseteq IdsNamed(x.list, x.name)

C12_Witness ==
    /\ domain.op = "createIssueByName"
    /\ domain.input.teamName = "Product"
    /\ domain.input.assigneeName = "Ann"
    /\ domain.input.labelNames = List(<<"infra", "gone">>)
    /\ domain.error = [kind |-> "Label", name |-> "gone"]
    /\ ~domain.mutation.sent
    /\ domain.requests = <<"teams", "users", "teamLabels", "workspaceLabels">>

\* the types a listIssues call is to leave out
Excluded(input) ==
    (IF input.includeCompleted THEN {} ELSE {"completed", "canceled"})
    \cup (IF input.includeBacklog THEN {} ELSE {"backlog"})

\* C14: the filter listIssues sends excludes the completed and canceled
\* types unless includeCompleted is set and the backlog type unless
\* includeBacklog is set, and keeps a supplied state name next to the
\* exclusion; the issues returned are exactly those of allowed types (and
\* of the named state), which with the defaults is the started issue alone
\* among completed, canceled, backlog and started ones.
C14_DefaultFiltering ==
    domain.op = "listIssues" =>
       LET input == domain.input IN
       /\ Range(domain.filter.typeNin) = Excluded(input)
       /\ domain.filter.hasType <=> Excluded(input) # {}
       /\ domain.filter.hasName <=> input.state # ""
       /\ domain.filter.hasName => domain.filter.nameEq = input.state
       /\ Range(domain.returned) =
             {x \in Range(Issues) :
                 /\ x.stateType \notin Excluded(input)
                 /\ input.state # "" => x.stateName = input.state
                 /\ input.teamId # 0 => x.team = input.teamId}
       /\ (~input.includeCompleted /\ ~input.includeBacklog) =>
             \A x \in Range(domain.returned) :
                x.stateType \in {"started", "unstarted"}

C14_Witness ==
    /\ domain.op = "listIssues"
    /\ domain.input.teamId = 1
    /\ domain.input.state = ""
    /\ ~domain.input.includeCompleted
    /\ ~domain.input.includeBacklog
    /\ Len(domain.returned) = 1
    /\ domain.returned[1].stateType = "started"

\* C17: every label id that an issue operation on team T resolves from
\* labelNames belongs to a label of team T or to a workspace-level label.
C17_TeamOrWorkspaceLabels ==
    (domain.op \in {"createIssueByName", "updateIssueByName"}
     /\ domain.mutation.sent /\ domain.mutation.labelIds.given)
       => \A id \in Range(domain.mutation.labelIds.items) :
             \E x \in Range(Labels) :
                x.id = id /\ x.team \in {domain.team, 0}

\* C18: an updateIssueByName call given a labelNames array, the empty array
\* included, sends an update that carries labelIds with one id per name, in
\* the order of the names.
C18_LabelsReplaced ==
    (domain.op = "updateIssueByName" /\ domain.mutation.sent
     /\ domain.input.labelNames.given)
       => /\ domain.mutation.labelIds.given
          /\ Len(domain.mutation.labelIds.items)
                = Len(domain.input.labelNames.items)
          /\ \A i \in 1 .. Len(domain.input.labelNames.items) :
                domain.mutation.labelIds.items[i] \in
                   IdsNamed(Labels, domain.input.labelNames.items[i])

\* C16: a stored credential set read back under the key it was written with
\* comes back as the same JSON text and the same set; read back under any
\* other key it never yields a credential set.
C16_RoundTrip ==
    (crypt.op \in {"getLinearTokens", "getApiKey"} /\ crypt.state = "intact") =>
        IF crypt.readKey = crypt.writtenKey
        THEN /\ ~crypt.read.threw
             /\ crypt.read.text = crypt.writtenText
             /\ crypt.read.tokens = crypt.written
        ELSE /\ crypt.read.text = <<>>
             /\ crypt.read.tokens = NoTokens

C16_Witness ==
    /\ crypt.op = "getLinearTokens"
    /\ crypt.state = "intact"
    /\ crypt.readKey = crypt.writtenKey
    /\ crypt.written.refreshToken # 0
    /\ crypt.written.expiresAt # 0
    /\ crypt.read.tokens = crypt.written

\* the stored value cannot be decrypted and parsed under the key in use
Unreadable ==
    \/ crypt.state = "damaged"
    \/ crypt.state = "intact" /\ crypt.readKey # crypt.writtenKey

\* C15: when the stored value is damaged, cut short or written under another
\* key, getLinearTokens returns null without throwing, and getApiKey fails
\* with the "please authenticate" error with no request sent upstream.
C15_FailureIsNoCredential ==
    (crypt.op \in {"getLinearTokens", "getApiKey"} /\ Unreadable) =>
        /\ crypt.read = Null
        /\ crypt.op = "getApiKey" =>
              /\ crypt.error = "NoAccessToken"
              /\ tokenRequests = 0
              /\ upstreamRequests = 0

C15_Witness ==
    /\ crypt.op = "getApiKey"
    /\ crypt.state = "damaged"
    /\ kvBlob # <<>>
    /\ crypt.readKey = crypt.writtenKey
    /\ crypt.error = "NoAccessToken"

\* C21: while the stored credential set has no refresh credential, no step
\* of getApiKey, refreshAndGetApiKey, refreshAccessToken or performRefresh
\* sends a request to the token endpoint.
C21_NoRefreshInStaticKeyMode ==
    [][kv.refreshToken = 0 => tokenRequests' = tokenRequests]_vars

C21_Witness ==
    /\ kv.accessToken # 0
    /\ kv.refreshToken = 0
    /\ tokenRequests = 0
    /\ \E c \in Callers :
          /\ callers[c].op = "getApiKey"
          /\ callers[c].pc = "done"
          /\ callers[c].wrote
    /\ \E c \in Callers :
          /\ callers[c].op = "refreshAndGetApiKey"
          /\ callers[c].pc = "failed"
          /\ callers[c].error = "NoRefreshTokenForRetry"

\* the getApiKey call of caller c read a set with a refresh credential and
\* no recorded expiry, and has returned
LegacyCallReturned(c) ==
    /\ callers[c].op = "getApiKey"
    /\ callers[c].pc = "done"
    /\ callers[c].tokens.refreshToken # 0
    /\ callers[c].tokens.expiresAt = 0

\* C22: a getApiKey call that read a legacy set (refresh credential, no
\* expiry) and returned has made exactly one refresh call, returns an access
\* credential persisted by a refresh and not the one it read, and leaves the
\* store holding a set with an expiry and a refresh credential, so a call
\* that reads the store afterwards finds no legacy set.
C22_LegacyForcesOneRefresh ==
    \A c \in Callers :
       LegacyCallReturned(c)
          => /\ callers[c].refreshCalls = 1
             /\ callers[c].result # callers[c].tokens.accessToken
             /\ \E p \in callers[c].awaiting .. Len(promises) :
                   /\ promises[p].pc \in {"pr_done", "fulfilled"}
                   /\ callers[c].result = promises[p].persisted
             /\ ~IsLegacy(getLinearTokens(kv))
             /\ kv.refreshToken # 0

C22_Witness ==
    \E c, d \in Callers :
       /\ LegacyCallReturned(c)
       /\ callers[c].initiator
       /\ callers[c].result = kv.accessToken
       /\ callers[d].op = "getApiKey"
       /\ callers[d].pc = "done"
       /\ callers[d].tokens = kv
       /\ callers[d].refreshCalls = 0

\* C23: the set a successful refresh persists has an expiry equal to the
\* time the endpoint's answer was processed plus the lifetime the endpoint
\* supplied, or plus 23 hours when it supplied none, and a refresh
\* credential: the one the endpoint returned, or else the one the refresh
\* had read.
C23_PersistedSetComplete ==
    [][\A p \in PromiseIds :
          RefreshPersists(p) =>
             /\ kv'.expiresAt # 0
             /\ kv'.expiresAt =
                   promises[p].at
                   + (IF promises[p].resp.expires_in # 0
                      THEN promises[p].resp.expires_in
                      ELSE 23 * 60 * 60)
             /\ kv'.refreshToken # 0
             /\ kv'.refreshToken =
                   (IF promises[p].resp.refresh_token # 0
                    THEN promises[p].resp.refresh_token
                    ELSE promises[p].tokens.refreshToken)]_vars

C23_Witness ==
    \E p \in PromiseIds :
       /\ promises[p].pc = "pr_done"
       /\ promises[p].resp.expires_in = 0
       /\ promises[p].resp.refresh_token = 0
       /\ kv = promises[p].updated
       /\ kv.expiresAt = promises[p].at + defaultLifetime
       /\ kv.refreshToken = promises[p].before.refreshToken
       /\ now > promises[p].at

\* the call of caller c failed on the refresh path: in refreshAndGetApiKey,
\* or in getApiKey after it called refreshAccessToken
FailedOnRefreshPath(c) ==
    /\ callers[c].pc = "failed"
    /\ \/ callers[c].op = "refreshAndGetApiKey"
       \/ callers[c].refreshCalls > 0

\* C24: every failure on the refresh path reaches the caller as the message
\* that instructs re-authentication ("Failed to refresh access token. Please
\* re-authenticate with Linear."), also when the stored set has no refresh
\* credential.
C24_FailuresInstructReauth ==
    \A c \in Callers :
       FailedOnRefreshPath(c) => callers[c].error = "ReauthRequired"

\* every name supplied in the input is carried by a record of the list
\* fetched for it
AllNamesResolve(input, team) ==
    /\ input.assigneeName # "" => input.assigneeName \in NamesOf(Users)
    /\ input.stateName # "" =>
          input.stateName \in NamesOf(listStates(workspace, team))
    /\ \A n \in Range(input.labelNames.items) :
          n \in NamesOf(listLabels(workspace, team) \o listLabels(workspace, 0))
    /\ input.projectName # "" =>
          input.projectName \in NamesOf(listProjects(workspace, team))

\* C25: createIssueByName issues no assignee, state, label or project lookup
\* before listTeams has answered and the team name has matched; it then
\* issues all of them in one step; and issueCreate is sent only when every
\* one of them has answered and every supplied name has resolved.
C25_TeamFirstThenFanOut ==
    /\ [](/\ creation.issued # {} =>
                /\ creation.teamsAnswered
                /\ creation.team # 0
                /\ creation.team \in IdsNamed(Teams, creation.input.teamName)
          /\ creation.mutation.sent =>
                /\ creation.inflight = {}
                /\ creation.answered = Needed(creation.input)
                /\ AllNamesResolve(creation.input, creation.team))
    /\ [][creation'.issued # creation.issued =>
             /\ creation.pc = "teams"
             /\ creation.issued = {}
             /\ creation'.issued = Needed(creation.input)
             /\ creation'.inflight = creation'.issued]_vars

C25_Witness ==
    /\ creation.pc = "done"
    /\ creation.mutation.sent
    /\ creation.answered =
          {"users", "states", "teamLabels", "workspaceLabels", "projects"}
    /\ creation.mutation.labelIds.given

\* the records of a list that carry the name, and the earliest of them
Carrying(list, name) == {i \in 1 .. Len(list) : list[i].name = name}

EarliestId(list, name) ==
    list[CHOOSE i \in Carrying(list, name) :
            \A j \in Carrying(list, name) : i <= j].id

\* C26: when several records of a fetched list carry a supplied name, the
\* operation reports no error for that name, and the mutation it sends
\* carries the id of the earliest such record of the list (for labels: of
\* the team's labels followed by the labels of the unfiltered query).
C26_FirstMatchWins ==
    domain.op \in ByNameOps =>
       \A x \in Supplied(domain) :
          Cardinality(Carrying(x.list, x.name)) >= 2 =>
             /\ domain.error # [kind |-> x.kind, name |-> x.name]
             /\ domain.mutation.sent =>
                   IdsUsed(domain, x) = {EarliestId(x.list, x.name)}

C26_Witness ==
    /\ domain.op = "createIssueByName"
    /\ domain.mutation.sent
    /\ domain.input.assigneeName = "Ann"
    /\ domain.mutation.assigneeId = 21
    /\ domain.team = 2
    /\ domain.input.labelNames.items = <<"ui", "bug">>
    /\ domain.mutation.labelIds.items = <<13, 12>>
    /\ Cardinality(Carrying(LabelsFetched(domain), "bug")) = 3

\* a step in which getOrFetch call g invokes the fetcher, one in which its
\* fetcher resolves, and one in which its fetcher rejects
StartsFetch(g) == getters[g].pc # "fetching" /\ getters'[g].pc = "fetching"

FetchCompletes(g) == getters[g].pc = "fetching" /\ getters'[g].pc = "done"

FetchRejects(g) == getters[g].pc = "fetching" /\ getters'[g].pc = "failed"

\* C27: a getOrFetch call that finds no valid entry invokes the fetcher even
\* while another call is fetching the same key; each call returns the
\* payload of its own fetch; and every completing fetch replaces the entry,
\* so the entry left is that of the fetch that completed last.
C27_NoInFlightDeduplication ==
    /\ [](\A g \in Getters :
             /\ (Checked(g) /\ ~EntryValid(getters[g].seen, getters[g].checkedAt))
                   => getters[g].source = "fetch" /\ getters[g].call > 0
             /\ (getters[g].pc = "done" /\ getters[g].source = "fetch")
                   => getters[g].result = getters[g].call)
    /\ [][\A g \in Getters :
             /\ StartsFetch(g) => fetcherCalls' = fetcherCalls + 1
             /\ FetchCompletes(g) =>
                   /\ cache'[getters[g].key].present
                   /\ cache'[getters[g].key].data = getters[g].call]_vars

C27_Witness ==
    /\ getters[1].pc = "done" /\ getters[2].pc = "done"
    /\ getters[1].key = getters[2].key
    /\ getters[1].source = "fetch" /\ getters[2].source = "fetch"
    /\ ~getters[1].seen.present /\ ~getters[2].seen.present
    /\ getters[1].checkedAt = getters[2].checkedAt
    /\ getters[1].call = 1 /\ getters[2].call = 2
    /\ getters[1].result = 1 /\ getters[2].result = 2
    /\ cache[getters[1].key].data = 1
    /\ fetcherCalls = 2

\* C28: when the fetcher rejects, getOrFetch fails without a result and the
\* cache is exactly as it was, so no entry carries the payload slot of a
\* rejected fetch and a later call for the key that finds no valid entry
\* invokes the fetcher again.
C28_FailedFetchLeavesCache ==
    /\ [](\A g \in Getters :
             getters[g].pc = "failed" =>
                /\ getters[g].result = 0
                /\ \A k \in Keys : cache[k].present => cache[k].data # getters[g].call)
    /\ [][\A g \in Getters : FetchRejects(g) => cache' = cache]_vars

C28_Witness ==
    /\ getters[1].pc = "failed"
    /\ getters[1].call = 1
    /\ getters[2].pc = "done"
    /\ getters[2].key = getters[1].key
    /\ getters[2].source = "fetch"
    /\ getters[2].call = 2
    /\ ~getters[2].seen.present
    /\ cache[getters[1].key].data = 2

\* the connection in progress is on the static-key path and carries an
\* Authorization header
StaticKeyConnection ==
    conn.path = MCP_NO_OAUTH_PATH /\ conn.authHeader.body # 0

\* the secret is configured and the X-MCP-Secret header equals it
Authorized ==
    conn.envSecret # "" /\ conn.mcpSecret = conn.envSecret

\* C29: a connection on /mcp-no-oauth with an Authorization header changes
\* the session identity or the credential store only when
\* MCP_API_KEY_SECRET is configured and X-MCP-Secret equals it; otherwise
\* onConnect has failed with the secret error and no step of it changes
\* either.
C29_StaticKeyNeedsSecret ==
    /\ []((StaticKeyConnection /\ ~Authorized) =>
             /\ conn.pc = "failed"
             /\ conn.error \in {"NotConfigured", "Unauthorized"})
    /\ [][(props' # props \/ tokenStore' # tokenStore) =>
             StaticKeyConnection /\ Authorized]_vars

C29_Witness ==
    /\ StaticKeyConnection
    /\ ~Authorized
    /\ conn.envSecret # ""
    /\ conn.mcpSecret # ""
    /\ conn.error = "Unauthorized"
    /\ props \in StaticIdentities
    /\ tokenStore[props].accessToken # 0
    /\ ApiKeyUserId(conn.authHeader.body) # props
    /\ tokenStore[ApiKeyUserId(conn.authHeader.body)] = NoTokens

\* C30: an issue_create call without assigneeName, by an identity that has
\* a stored access credential, whose team and project names resolve, sends
\* issueCreate and reports no user-not-found error.
C30_AssigneeOptional ==
    (/\ issueCreate.called
     /\ issueCreate.assigneeName = ""
     /\ issueCreate.thrown \notin {"AuthRequired", "NoAccessToken"}
     /\ issueCreate.call.error.kind \notin {"Team", "Project"})
       => /\ issueCreate.call.mutation.sent
          /\ issueCreate.call.error.kind # "User"

====
